---- MODULE Spec2Model ----
(***************************************************************************)
(* Model of the userRouter of packages/api (routes/user): signup,          *)
(* verifyEmail, resendVerification, login and githubAuth over the Prisma   *)
(* tables user, account and emailVerificationToken, with the verification  *)
(* e-mail sender and the JWT minting.  Each procedure is one action: the   *)
(* requests of Spec, SpecClock, SpecMail, SpecGithub, SpecPlaceholder,     *)
(* SpecProfile and SpecAny run one at a time.  SpecConc runs githubAuth    *)
(* store call by store call, SpecOAuth fetch by fetch, and SpecRace runs   *)
(* signup, verifyEmail and resendVerification store call by store call.    *)
(* SpecResolve applies the e-mail resolution to every bounded answer, and  *)
(* SpecContext is the request context with its protected procedures.       *)
(* SpecPair runs the password flows of two addresses store call by store   *)
(* call, SpecSession presents session tokens as time passes, SpecCallback  *)
(* sets the client's callback route next to githubAuth, SpecClient is the  *)
(* browser's token handling (headers, TokenMonitor), and SpecState is the  *)
(* OAuth state check of the client's callback page.                        *)
(***************************************************************************)
EXTENDS Integers, Sequences, FiniteSets, TLC

\* ------------------------------------------------------------------ bounds

\* Verification tokens that may be generated in one behaviour.
MaxTokens == 3
\* Clock advances in one behaviour.
MaxTicks == 2

\* ------------------------------------------------------------ input domains

NULL == "null"

\* E-mail addresses that pass userInputValidation.
Emails == {"a@b.com", "x@x.com"}
\* Passwords that pass userInputValidation.
Passwords == {"Test123!@#", "Wrong123!@#"}
\* GitHub identities (GitHubUser.id) and what their profile may carry.
GithubIds == {12345, 777}
GithubLogin == "testuser"
GithubNames == {NULL, "Test User"}
GithubAvatar == "https://avatar.url"
AccessTokens == {"gho_1", "gho_2"}

\* ------------------------------------------------------------------- state

VARIABLES
    users,      \* table user: [id, email, passwordHash, emailVerified, name, avatarUrl]
    accounts,   \* table account: [id, userId, provider, providerAccountId, accessToken]
    tokens,     \* table emailVerificationToken: [id, token, email, expiresAt]
    issued,     \* verification tokens generated so far
    now,        \* Date.now(), in milliseconds
    ticks,      \* clock advances so far
    outbox,     \* signup's verification e-mails in flight (not awaited)
    sendCalls,  \* calls of sendVerificationEmail so far
    res,        \* what the last procedure call returned or threw
    inflight,   \* requests between two of their store calls
    redeemed,   \* per verification token, the verifyEmail calls that returned a session
    client      \* the browser: localStorage, sessionStorage and TokenMonitor's timers

vars == <<users, accounts, tokens, issued, now, ticks, outbox, sendCalls, res,
          inflight, redeemed, client>>

\* -------------------------------------------------------- program constants

\* 24 * 60 * 60 * 1000 ms, the lifetime of a verification token.
VerificationTTL == 24 * 60 * 60 * 1000
\* expiresIn: "1h" of jwt.sign, in seconds.
JwtExpiresIn == 60 * 60

MsgSignupOk == "Please check your email to verify your account"
MsgConflict == "user already exists, try signing-in"
MsgTokenNotFound == "Invalid or expired verification link"
MsgTokenExpired == "Verification link has expired. Please sign up again."
MsgVerifyNoUser == "User not found"
MsgResendNoUserLeaky == "No account exists for this email"
MsgResendNoUser == "If an account exists, a verification email has been sent"
MsgResendSent == "If an account exists, a verification email has been sent"
MsgAlreadyVerified == "Email is already verified"
MsgLoginNotFound == "user not found"
MsgUnverified == "Please verify your email before logging in"
MsgBadPassword == "invalid credentials"
\* A Prisma unique-constraint error, which tRPC reports as
\* INTERNAL_SERVER_ERROR.
MsgStoreFailed == "Unique constraint failed"

MsgRecordGone == "Record to delete does not exist"

\* ------------------------------------------------------------ results

\* A procedure call and its outcome: the procedure, its input, then code
\* "OK" or the TRPCError code, the message, the session JWT's payload (a
\* sequence of at most one record) and the e-mail of signup's output.
Result(op, input, code, message, token, email) ==
    [op |-> op, input |-> input, code |-> code, message |-> message,
     token |-> token, email |-> email]

NoResult == Result("none", <<>>, "OK", NULL, <<>>, NULL)

\* A session token that lives two hours.
JwtSignTwoHours(userId, t) ==
    <<[userId |-> userId, iat |-> t \div 1000, exp |-> (t \div 1000) + 2 * 60 * 60]>>

\* jwt.sign({ userId }, JWT_SECRET, { expiresIn: "1h" }) at time t (ms).
JwtSign(userId, t) ==
    <<[userId |-> userId, iat |-> t \div 1000, exp |-> (t \div 1000) + JwtExpiresIn]>>

\* Bun.password.hash / Bun.password.verify.
PasswordHash(password) == <<"hash", password>>
PasswordVerify(password, hash) == hash = PasswordHash(password)
NoHash == <<>>

\* ------------------------------------------------------------ store calls

\* prismaClient.user.findFirst / findUnique ({ where: { email } }).
FindUserByEmail(us, email) == {u \in us : u.email = email}

\* prismaClient.user.create: ids are fresh, emailVerified defaults to false.
NewUser(us, email, hash, verified, name, avatarUrl) ==
    [id |-> Cardinality(us) + 1, email |-> email, passwordHash |-> hash,
     emailVerified |-> verified, name |-> name, avatarUrl |-> avatarUrl]

\* An update that writes nothing.
MarkVerifiedNoop(us, id) == us

\* prismaClient.user.update({ where: { id }, data: { emailVerified: true } }).
MarkVerified(us, id) ==
    {IF u.id = id THEN [u EXCEPT !.emailVerified = TRUE] ELSE u : u \in us}

\* generateVerificationToken(): the n-th value drawn is unlike the others.
generateVerificationToken(n) == "vt-" \o ToString(n)

\* A deleteMany that removes nothing.
DeleteManyTokensNone(toks, email) == toks

\* A deleteMany without its where clause.
DeleteManyTokensAll(toks, email) == {}

\* prismaClient.emailVerificationToken.deleteMany({ where: { email } }).
DeleteManyTokens(toks, email) == {t \in toks : t.email # email}

\* A create that replaces the rows of the e-mail.
CreateTokenReplacing(toks, n, email, expiresAt) ==
    {t \in toks : t.email # email} \cup
        {[id |-> n, token |-> generateVerificationToken(n), email |-> email,
          expiresAt |-> expiresAt]}

\* prismaClient.emailVerificationToken.create.
CreateToken(toks, n, email, expiresAt) ==
    toks \cup {[id |-> n, token |-> generateVerificationToken(n),
                email |-> email, expiresAt |-> expiresAt]}

\* A lookup that ignores the token value.
FindTokenAny(toks, token) == toks

\* prismaClient.emailVerificationToken.findUnique({ where: { token } }).
FindToken(toks, token) == {t \in toks : t.token = token}

\* A delete that removes nothing.
DeleteTokenNoop(toks, id) == toks

\* prismaClient.emailVerificationToken.delete({ where: { id } }).
DeleteToken(toks, id) == {t \in toks : t.id # id}

\* Token issue that forgets the deleteMany.
IssueTokenKeepingOld(toks, n, email, t) ==
    CreateToken(toks, n, email, t + VerificationTTL)

\* Delete the earlier tokens of the e-mail, then create the new one.
IssueToken(toks, n, email, t) ==
    CreateToken(DeleteManyTokens(toks, email), n, email, t + VerificationTTL)

\* The expiry comparison the wrong way round.
IsExpiredReversed(tok, t) == tok.expiresAt > t

\* An expiry comparison that counts the expiry instant itself as expired.
IsExpiredInclusive(tok, t) == tok.expiresAt <= t

\* verificationToken.expiresAt < new Date()
IsExpired(tok, t) == tok.expiresAt < t

\* ------------------------------------------------------------------ Init

\* A browser that holds nothing: no token in localStorage, no oauth_state
\* and no session_expired flag in sessionStorage, no timer of TokenMonitor
\* armed (timeout: the time it is due; interval: the time it was started).
NoTimer == 0 - 1

NoClient ==
    [token |-> <<>>, oauthState |-> NULL, sessionExpired |-> FALSE,
     timeout |-> NoTimer, interval |-> NoTimer]

\* Every value generateVerificationToken may have returned.
TokenValues == {generateVerificationToken(n) : n \in 1..MaxTokens}

Init ==
    /\ users = {}
    /\ accounts = {}
    /\ tokens = {}
    /\ issued = 0
    /\ now = 0
    /\ ticks = 0
    /\ outbox = {}
    /\ sendCalls = 0
    /\ res = NoResult
    /\ inflight = {}
    /\ redeemed = [v \in TokenValues |-> 0]
    /\ client = NoClient

\* ---------------------------------------------------------------- e-mail

\* sendVerificationEmail: what the caller gets back when the provider
\* answers "ok", answers with an error, or the call to it throws.  The
\* function catches the throw, so the promise is never rejected.
sendVerificationEmail(outcome) ==
    IF outcome = "ok" THEN [success |-> TRUE, threw |-> FALSE]
    ELSE [success |-> FALSE, threw |-> FALSE]

SendOutcomes == {"ok", "error", "throw"}

\* ---------------------------------------------------------------- signup

\* An existence check that overlooks users without a password.
UserAlreadyExistsPasswordOnly(us, email) ==
    \E u \in FindUserByEmail(us, email) : u.passwordHash # NoHash

\* userAlreadyExists of signup.
UserAlreadyExists(us, email) == FindUserByEmail(us, email) # {}

\* A signup that creates the user already verified.
SignupUserVerified(us, email, password) ==
    NewUser(us, email, PasswordHash(password), TRUE, NULL, NULL)

\* The data of signup's user.create; emailVerified is left to its default.
SignupUser(us, email, password) ==
    NewUser(us, email, PasswordHash(password), FALSE, NULL, NULL)

signup(email, password) ==
    LET in == <<email, password>> IN
    /\ IF UserAlreadyExists(users, email)
       THEN /\ res' = Result("signup", in, "CONFLICT", MsgConflict, <<>>, NULL)
            /\ UNCHANGED <<users, tokens, issued, outbox, sendCalls>>
       ELSE IF FindUserByEmail(users, email) # {}
       THEN /\ res' = Result("signup", in, "INTERNAL_SERVER_ERROR", MsgStoreFailed,
                             <<>>, NULL)
            /\ UNCHANGED <<users, tokens, issued, outbox, sendCalls>>
       ELSE /\ issued < MaxTokens
            /\ users' = users \cup {SignupUser(users, email, password)}
            /\ issued' = issued + 1
            /\ tokens' = IssueToken(tokens, issued + 1, email, now)
            /\ outbox' = outbox \cup
                  {[email |-> email, token |-> generateVerificationToken(issued + 1)]}
            /\ sendCalls' = sendCalls + 1
            /\ res' = Result("signup", in, "OK", MsgSignupOk, <<>>, email)
    /\ UNCHANGED <<accounts, now, ticks, client, redeemed, inflight>>

\* A settle that undoes the signup when the delivery failed.
SendSettlesRollingBack(m, outcome) ==
    /\ m \in outbox
    /\ outbox' = outbox \ {m}
    /\ users' = IF sendVerificationEmail(outcome).success THEN users
                ELSE {u \in users : u.email # m.email}
    /\ tokens' = IF sendVerificationEmail(outcome).success THEN tokens
                 ELSE {t \in tokens : t.token # m.token}
    /\ UNCHANGED <<accounts, issued, now, ticks, client, redeemed, inflight, sendCalls, res>>

\* The e-mail provider answers a send that signup did not wait for; the
\* outcome is logged and nothing else.
SendSettles(m, outcome) ==
    /\ m \in outbox
    /\ sendVerificationEmail(outcome).threw = FALSE
    /\ outbox' = outbox \ {m}
    /\ UNCHANGED <<users, accounts, tokens, issued, now, ticks, client, redeemed, inflight, sendCalls, res>>

\* ------------------------------------------------------------ verifyEmail

\* How verifyEmail(token) ends on tables us, toks at time t: the code and
\* message of the TRPCError it throws, or "OK".
VerifyOutcome(us, toks, token, t) ==
    LET found == FindToken(toks, token) IN
    IF found = {} THEN [code |-> "NOT_FOUND", message |-> MsgTokenNotFound]
    ELSE LET vt == CHOOSE x \in found : TRUE IN
         IF IsExpired(vt, t)
         THEN [code |-> "BAD_REQUEST", message |-> MsgTokenExpired]
         ELSE IF FindUserByEmail(us, vt.email) = {}
         THEN [code |-> "NOT_FOUND", message |-> MsgVerifyNoUser]
         ELSE [code |-> "OK", message |-> NULL]

\* verifyEmail returns its session token for the verification token.
Redeem(token) == redeemed' = [redeemed EXCEPT ![token] = @ + 1]

verifyEmail(token) ==
    LET out == VerifyOutcome(users, tokens, token, now)
        found == FindToken(tokens, token)
    IN
    /\ IF found = {}
       THEN /\ res' = Result("verifyEmail", <<token>>, out.code, out.message, <<>>, NULL)
            /\ UNCHANGED <<users, tokens, redeemed>>
       ELSE LET vt == CHOOSE x \in found : TRUE IN
            IF out.code = "BAD_REQUEST"
            THEN /\ tokens' = DeleteToken(tokens, vt.id)
                 /\ res' = Result("verifyEmail", <<token>>, out.code, out.message,
                                  <<>>, NULL)
                 /\ UNCHANGED <<users, redeemed>>
            ELSE IF out.code = "NOT_FOUND"
            THEN /\ res' = Result("verifyEmail", <<token>>, out.code, out.message,
                                  <<>>, NULL)
                 /\ UNCHANGED <<users, tokens, redeemed>>
            ELSE LET user == CHOOSE u \in FindUserByEmail(users, vt.email) : TRUE IN
                 /\ users' = MarkVerified(users, user.id)
                 /\ tokens' = DeleteToken(tokens, vt.id)
                 /\ res' = Result("verifyEmail", <<token>>, out.code, out.message,
                                  JwtSign(user.id, now), NULL)
                 /\ Redeem(token)
    /\ UNCHANGED <<accounts, issued, now, ticks, client, inflight, outbox, sendCalls>>

\* ----------------------------------------------------- resendVerification

\* An already-verified check that never fires.
AlreadyVerifiedNever(user) == FALSE

\* if (user.emailVerified) of resendVerification.
AlreadyVerified(user) == user.emailVerified

resendVerification(email, outcome) ==
    LET us == FindUserByEmail(users, email) IN
    /\ IF us = {}
       THEN /\ res' = Result("resendVerification", <<email>>, "OK", MsgResendNoUser,
                             <<>>, NULL)
            /\ UNCHANGED <<tokens, issued, sendCalls>>
       ELSE LET user == CHOOSE u \in us : TRUE IN
            IF AlreadyVerified(user)
            THEN /\ res' = Result("resendVerification", <<email>>, "BAD_REQUEST",
                                  MsgAlreadyVerified, <<>>, NULL)
                 /\ UNCHANGED <<tokens, issued, sendCalls>>
            ELSE /\ issued < MaxTokens
                 /\ issued' = issued + 1
                 /\ tokens' = IssueToken(tokens, issued + 1, email, now)
                 /\ sendCalls' = sendCalls + 1
                 /\ sendVerificationEmail(outcome).threw = FALSE
                 /\ res' = Result("resendVerification", <<email>>, "OK", MsgResendSent,
                                  <<>>, NULL)
    /\ UNCHANGED <<users, accounts, now, ticks, client, redeemed, inflight, outbox>>

\* ------------------------------------------------------------------ login

\* login without the emailVerified check.
LoginResultNoVerifiedCheck(us, email, password, t) ==
    LET found == FindUserByEmail(us, email)
        in == <<email, password>>
    IN
    IF found = {} \/ (\A u \in found : u.passwordHash = NoHash)
    THEN Result("login", in, "NOT_FOUND", MsgLoginNotFound, <<>>, NULL)
    ELSE LET user == CHOOSE u \in found : TRUE IN
         IF ~PasswordVerify(password, user.passwordHash)
         THEN Result("login", in, "UNAUTHORIZED", MsgBadPassword, <<>>, NULL)
         ELSE Result("login", in, "OK", NULL, JwtSign(user.id, t), NULL)

\* login that checks the password before emailVerified.
LoginResultPasswordFirst(us, email, password, t) ==
    LET found == FindUserByEmail(us, email)
        in == <<email, password>>
    IN
    IF found = {} \/ (\A u \in found : u.passwordHash = NoHash)
    THEN Result("login", in, "NOT_FOUND", MsgLoginNotFound, <<>>, NULL)
    ELSE LET user == CHOOSE u \in found : TRUE IN
         IF ~PasswordVerify(password, user.passwordHash)
         THEN Result("login", in, "UNAUTHORIZED", MsgBadPassword, <<>>, NULL)
         ELSE IF ~user.emailVerified
         THEN Result("login", in, "FORBIDDEN", MsgUnverified, <<>>, NULL)
         ELSE Result("login", in, "OK", NULL, JwtSign(user.id, t), NULL)

\* login without the test for a missing password hash.
LoginResultNoHashCheck(us, email, password, t) ==
    LET found == FindUserByEmail(us, email)
        in == <<email, password>>
    IN
    IF found = {}
    THEN Result("login", in, "NOT_FOUND", MsgLoginNotFound, <<>>, NULL)
    ELSE LET user == CHOOSE u \in found : TRUE IN
         IF ~user.emailVerified
         THEN Result("login", in, "FORBIDDEN", MsgUnverified, <<>>, NULL)
         ELSE IF ~PasswordVerify(password, user.passwordHash)
         THEN Result("login", in, "UNAUTHORIZED", MsgBadPassword, <<>>, NULL)
         ELSE Result("login", in, "OK", NULL, JwtSign(user.id, t), NULL)

\* What login(email, password) returns or throws on table us at time t.
LoginResult(us, email, password, t) ==
    LET found == FindUserByEmail(us, email)
        in == <<email, password>>
    IN
    IF found = {} \/ (\A u \in found : u.passwordHash = NoHash)
    THEN Result("login", in, "NOT_FOUND", MsgLoginNotFound, <<>>, NULL)
    ELSE LET user == CHOOSE u \in found : TRUE IN
         IF ~user.emailVerified
         THEN Result("login", in, "FORBIDDEN", MsgUnverified, <<>>, NULL)
         ELSE IF ~PasswordVerify(password, user.passwordHash)
         THEN Result("login", in, "UNAUTHORIZED", MsgBadPassword, <<>>, NULL)
         ELSE Result("login", in, "OK", NULL, JwtSign(user.id, t), NULL)

\* A login that clears the verification tokens of the e-mail.
loginClearingTokens(email, password) ==
    /\ res' = LoginResult(users, email, password, now)
    /\ tokens' = DeleteManyTokens(tokens, email)
    /\ UNCHANGED <<users, accounts, issued, now, ticks, client, redeemed, inflight, outbox, sendCalls>>

login(email, password) ==
    /\ res' = LoginResult(users, email, password, now)
    /\ UNCHANGED <<users, accounts, tokens, issued, now, ticks, client, redeemed, inflight, outbox, sendCalls>>

\* ------------------------------------------------------------- githubAuth

MsgExchangeFailed == "Failed to exchange code for token"
MsgProfileFailed == "Failed to fetch GitHub user profile"

\* JavaScript truthiness of a string | null.
Truthy(x) == x # NULL /\ x # ""
\* a || b
OrElse(a, b) == IF Truthy(a) THEN a ELSE b

\* What GitHub's token endpoint may answer.
FailedTokenResponses ==
    {[error |-> "bad_verification_code",
      error_description |-> "The code passed is incorrect or expired",
      access_token |-> NULL],
     [error |-> "bad_verification_code", error_description |-> NULL,
      access_token |-> "gho_1"],
     [error |-> NULL, error_description |-> NULL, access_token |-> NULL]}
GoodTokenResponses ==
    {[error |-> NULL, error_description |-> NULL, access_token |-> a] :
        a \in AccessTokens}

\* GET /user: the profile of the GitHub identity behind the code.
Profiles ==
    [id : GithubIds, login : {GithubLogin}, name : GithubNames,
     email : Emails \cup {NULL}, avatar_url : {GithubAvatar}]

\* The body of a profile response that is not ok is never read.
NoProfile ==
    [id |-> 0, login |-> NULL, name |-> NULL, email |-> NULL, avatar_url |-> NULL]

GitHubEmail(e, p, v) == [email |-> e, primary |-> p, verified |-> v]

\* GET /user/emails: the lists tried.
EmailLists ==
    {<<>>,
     <<GitHubEmail("a@b.com", TRUE, TRUE)>>,
     <<GitHubEmail("a@b.com", TRUE, FALSE)>>,
     <<GitHubEmail("x@x.com", FALSE, TRUE), GitHubEmail("y@y.com", TRUE, FALSE)>>,
     <<GitHubEmail("a@b.com", FALSE, TRUE), GitHubEmail("x@x.com", TRUE, TRUE)>>}

\* emails.find(pred): the first entry satisfying pred, as a sequence of at
\* most one entry.
Find(emails, pred(_)) ==
    LET hits == {i \in 1..Len(emails) : pred(emails[i])} IN
    IF hits = {} THEN <<>>
    ELSE <<emails[CHOOSE i \in hits : \A j \in hits : i <= j]>>

\* A resolution that trusts the primary flag alone.
ResolvePrimaryEmailUnverified(profileEmail, emailsOk, emails) ==
    IF ~emailsOk THEN profileEmail
    ELSE LET isPrimary(e) == e.primary
             primary == Find(emails, isPrimary)
         IN  IF primary # <<>> THEN primary[1].email ELSE profileEmail

\* primaryEmail as githubAuth resolves it from the profile and the e-mails
\* response.
ResolvePrimaryEmail(profileEmail, emailsOk, emails) ==
    IF ~emailsOk THEN profileEmail
    ELSE LET isPrimary(e) == e.primary /\ e.verified
             isVerified(e) == e.verified
             primary == Find(emails, isPrimary)
             verified == Find(emails, isVerified)
         IN  IF primary # <<>> THEN primary[1].email
             ELSE IF verified # <<>> THEN verified[1].email
             ELSE profileEmail

\* `github_${githubId}@placeholder.local`
PlaceholderEmail(githubId) == "github_" \o githubId \o "@placeholder.local"

\* An account lookup that finds nothing.
FindAccountNone(accs, provider, providerAccountId) == {}

\* prismaClient.account.findUnique({ where: { provider_providerAccountId } }).
FindAccount(accs, provider, providerAccountId) ==
    {a \in accs : a.provider = provider /\ a.providerAccountId = providerAccountId}

\* prismaClient.account.create.
NewAccount(accs, userId, providerAccountId, accessToken) ==
    [id |-> Cardinality(accs) + 1, userId |-> userId, provider |-> "github",
     providerAccountId |-> providerAccountId, accessToken |-> accessToken]

\* An account update that keeps the stored access token.
UpdateAccountTokenStale(acc, accessToken) == acc

\* prismaClient.account.update({ data: { accessToken } }).
UpdateAccountToken(acc, accessToken) == [acc EXCEPT !.accessToken = accessToken]

\* A refresh that also rewrites emailVerified from this round's e-mail.
RefreshUserResettingVerified(u, githubUser, primaryEmail) ==
    [u EXCEPT !.name = OrElse(githubUser.name, githubUser.login),
              !.avatarUrl = githubUser.avatar_url,
              !.emailVerified = Truthy(primaryEmail)]

\* A refresh that fills the name only where it is empty.
RefreshUserKeepingName(u, githubUser, primaryEmail) ==
    [u EXCEPT !.name = OrElse(u.name, OrElse(githubUser.name, githubUser.login)),
              !.avatarUrl = githubUser.avatar_url]

\* A refresh that takes the resolved e-mail whenever there is one.
RefreshUserTakingEmail(u, githubUser, primaryEmail) ==
    [u EXCEPT !.name = OrElse(githubUser.name, githubUser.login),
              !.avatarUrl = githubUser.avatar_url,
              !.email = IF Truthy(primaryEmail) THEN primaryEmail ELSE u.email]

\* The user.update of the existing-account branch.
RefreshUser(u, githubUser, primaryEmail) ==
    [u EXCEPT !.name = OrElse(githubUser.name, githubUser.login),
              !.avatarUrl = githubUser.avatar_url,
              !.email = IF Truthy(primaryEmail) /\ ~Truthy(u.email)
                        THEN primaryEmail ELSE u.email]

\* A link that overwrites the profile as a refresh does.
BackfillUserOverwriting(u, githubUser) ==
    [u EXCEPT !.name = OrElse(githubUser.name, githubUser.login),
              !.avatarUrl = githubUser.avatar_url]

\* The user.update of the link branch.
BackfillUser(u, githubUser) ==
    [u EXCEPT !.name = OrElse(u.name, OrElse(githubUser.name, githubUser.login)),
              !.avatarUrl = OrElse(u.avatarUrl, githubUser.avatar_url)]

\* The user.create data of the new-user branch.
GithubNewUser(us, githubUser, githubId, primaryEmail) ==
    NewUser(us, OrElse(primaryEmail, PlaceholderEmail(githubId)), NoHash,
            Truthy(primaryEmail), OrElse(githubUser.name, githubUser.login),
            githubUser.avatar_url)

\* Step 4 of githubAuth: find or create the user and the account.  The
\* result records, as the input, what the code stood for: the GitHub id and
\* the e-mail resolved for it.
Reconcile(githubUser, accessToken, primaryEmail) ==
    LET githubId == ToString(githubUser.id)
        in == <<githubId, primaryEmail>>
        existingAccount == FindAccount(accounts, "github", githubId)
    IN
    IF existingAccount # {}
    THEN LET acc == CHOOSE a \in existingAccount : TRUE
             owner == CHOOSE u \in users : u.id = acc.userId
             user == RefreshUser(owner, githubUser, primaryEmail)
         IN  IF user.email # owner.email /\ FindUserByEmail(users, user.email) # {}
             THEN /\ res' = Result("githubAuth", in, "INTERNAL_SERVER_ERROR",
                                   MsgStoreFailed, <<>>, NULL)
                  /\ UNCHANGED <<users, accounts>>
             ELSE /\ users' = (users \ {owner}) \cup {user}
                  /\ accounts' = (accounts \ {acc}) \cup
                                    {UpdateAccountToken(acc, accessToken)}
                  /\ res' = Result("githubAuth", in, "OK", NULL,
                                JwtSign(user.id, now), NULL)
    ELSE LET existingUser == IF Truthy(primaryEmail)
                             THEN FindUserByEmail(users, primaryEmail) ELSE {}
         IN
         IF existingUser # {}
         THEN LET eu == CHOOSE u \in existingUser : TRUE
                  user == BackfillUser(eu, githubUser)
              IN  /\ accounts' = accounts \cup
                                    {NewAccount(accounts, eu.id, githubId, accessToken)}
                  /\ users' = (users \ {eu}) \cup {user}
                  /\ res' = Result("githubAuth", in, "OK", NULL,
                                JwtSign(user.id, now), NULL)
         ELSE LET user == GithubNewUser(users, githubUser, githubId, primaryEmail) IN
              IF FindUserByEmail(users, user.email) # {}
              THEN /\ res' = Result("githubAuth", in, "INTERNAL_SERVER_ERROR",
                                    MsgStoreFailed, <<>>, NULL)
                   /\ UNCHANGED <<users, accounts>>
              ELSE /\ users' = users \cup {user}
                   /\ accounts' = accounts \cup
                                    {NewAccount(accounts, user.id, githubId, accessToken)}
                   /\ res' = Result("githubAuth", in, "OK", NULL,
                                JwtSign(user.id, now), NULL)

githubAuth(tokenData, profileOk, githubUser, emailsOk, emails) ==
    /\ IF Truthy(tokenData.error) \/ ~Truthy(tokenData.access_token)
       THEN /\ res' = Result("githubAuth", <<>>, "BAD_REQUEST",
                             OrElse(tokenData.error_description, MsgExchangeFailed),
                             <<>>, NULL)
            /\ UNCHANGED <<users, accounts>>
       ELSE IF ~profileOk
       THEN /\ res' = Result("githubAuth", <<>>, "INTERNAL_SERVER_ERROR",
                             MsgProfileFailed, <<>>, NULL)
            /\ UNCHANGED <<users, accounts>>
       ELSE Reconcile(githubUser, tokenData.access_token,
                      ResolvePrimaryEmail(githubUser.email, emailsOk, emails))
    /\ UNCHANGED <<tokens, issued, now, ticks, client, redeemed, inflight, outbox, sendCalls>>

\* ------------------------------------------------------------------ clock

Tick(d) ==
    /\ ticks < MaxTicks
    /\ ticks' = ticks + 1
    /\ now' = now + d
    /\ UNCHANGED <<users, accounts, tokens, issued, outbox, sendCalls, res, inflight,
                   redeemed, client>>

\* Addresses a login may name: the validated ones and the placeholders.
LoginEmails == Emails \cup {PlaceholderEmail(ToString(g)) : g \in GithubIds}

\* The GitHub answers tried by Spec: one identity, whose profile shows
\* either address or none.
BasicTokenResponses == {td \in GoodTokenResponses : td.access_token = "gho_1"}
BasicProfiles == {p \in Profiles : p.id = 12345 /\ p.name = "Test User"}

\* The five procedures, called one at a time.
Next ==
    \/ \E e \in Emails, p \in Passwords : signup(e, p)
    \/ \E v \in TokenValues : verifyEmail(v)
    \/ \E e \in Emails, o \in SendOutcomes : resendVerification(e, o)
    \/ \E e \in LoginEmails, p \in Passwords : login(e, p)
    \/ \E td \in FailedTokenResponses : githubAuth(td, FALSE, NoProfile, FALSE, <<>>)
    \/ \E td \in BasicTokenResponses : githubAuth(td, FALSE, NoProfile, FALSE, <<>>)
    \/ \E td \in BasicTokenResponses, gu \in BasicProfiles :
          \/ githubAuth(td, TRUE, gu, FALSE, <<>>)
          \/ \E el \in EmailLists : githubAuth(td, TRUE, gu, TRUE, el)

Spec == Init /\ [][Next]_vars

\* The verification-token life cycle under a millisecond clock: the three
\* procedures that read or write emailVerificationToken, and the clock.
NextClock ==
    \/ \E e \in Emails, p \in Passwords : signup(e, p)
    \/ \E v \in TokenValues : verifyEmail(v)
    \/ \E e \in Emails, o \in SendOutcomes : resendVerification(e, o)
    \/ \E d \in {1, VerificationTTL} : Tick(d)

SpecClock == Init /\ [][NextClock]_vars

\* The profiles of the two GitHub identities, showing either address or
\* none.
NamedProfiles == {p \in Profiles : p.name = "Test User"}

\* githubAuth for two GitHub identities, with either access token and every
\* e-mail answer, next to one password user.
NextGithub ==
    \/ signup("x@x.com", "Test123!@#")
    \/ \E td \in GoodTokenResponses, gu \in NamedProfiles :
          \/ githubAuth(td, TRUE, gu, FALSE, <<>>)
          \/ \E el \in EmailLists : githubAuth(td, TRUE, gu, TRUE, el)

SpecGithub == Init /\ [][NextGithub]_vars

\* Addresses a signup may name: the ordinary ones and the placeholder
\* address of a GitHub identity, which passes userInputValidation as well.
SignupEmails == Emails \cup {PlaceholderEmail("12345")}

\* githubAuth for two GitHub identities next to signups that may name a
\* placeholder address.
NextPlaceholder ==
    \/ \E e \in SignupEmails : signup(e, "Test123!@#")
    \/ \E td \in BasicTokenResponses, gu \in NamedProfiles :
          \/ githubAuth(td, TRUE, gu, FALSE, <<>>)
          \/ \E el \in EmailLists : githubAuth(td, TRUE, gu, TRUE, el)

SpecPlaceholder == Init /\ [][NextPlaceholder]_vars

\* signup with its detached send: the provider answers at any later time,
\* or never, while verifyEmail and login go on.
NextMail ==
    \/ \E e \in Emails, p \in Passwords : signup(e, p)
    \/ \E m \in outbox, o \in SendOutcomes : SendSettles(m, o)
    \/ \E v \in TokenValues : verifyEmail(v)
    \/ \E e \in Emails, p \in Passwords : login(e, p)

SpecMail == Init /\ [][NextMail]_vars

\* ------------------------------------------- githubAuth, call by call

\* githubAuth requests that may be in progress at once.
MaxInflight == 2

\* A githubAuth request between two awaits: where it stands, what GitHub
\* answered, and what it has read from the store (sequences of at most one
\* row).
Request(rid, pc, githubUser, accessToken, emailsOk, emails, primaryEmail, account, user) ==
    [rid |-> rid, pc |-> pc, githubUser |-> githubUser, accessToken |-> accessToken,
     emailsOk |-> emailsOk, emails |-> emails, primaryEmail |-> primaryEmail,
     account |-> account, user |-> user]

\* A uniqueness check on account that lets every row in.
AccountKeyFreeAlways(accs, provider, providerAccountId) == TRUE

\* The unique key (provider, providerAccountId) of account, which the
\* findUnique by provider_providerAccountId relies on: a create is let in
\* only while no row has the key.
AccountKeyFree(accs, provider, providerAccountId) ==
    \A a \in accs : ~(a.provider = provider /\ a.providerAccountId = providerAccountId)

\* The unique e-mail of user, which findUnique({ where: { email } })
\* relies on.
EmailFree(us, email) == \A u \in us : u.email # email

\* The request ends: it returns or throws.
Finish(r, code, message, token) ==
    /\ inflight' = inflight \ {r}
    /\ res' = Result("githubAuth", <<ToString(r.githubUser.id), r.primaryEmail>>,
                     code, message, token, NULL)

\* Steps 1 to 3: the code is exchanged, the profile and the e-mails fetched.
ghFetch(rid, tokenData, githubUser, emailsOk, emails) ==
    /\ Cardinality(inflight) < MaxInflight
    /\ \A r \in inflight : r.rid # rid
    /\ ~(Truthy(tokenData.error) \/ ~Truthy(tokenData.access_token))
    /\ inflight' = inflight \cup
          {Request(rid, "fetched", githubUser, tokenData.access_token, emailsOk,
                   emails, NULL, <<>>, <<>>)}
    /\ UNCHANGED <<users, accounts, tokens, issued, now, ticks, client, redeemed, outbox, sendCalls, res>>

\* primaryEmail is resolved from the answers.
ghResolve(r) ==
    /\ r.pc = "fetched"
    /\ inflight' = (inflight \ {r}) \cup
          {[r EXCEPT !.pc = "resolved",
                     !.primaryEmail = ResolvePrimaryEmail(r.githubUser.email,
                                                          r.emailsOk, r.emails)]}
    /\ UNCHANGED <<users, accounts, tokens, issued, now, ticks, client, redeemed, outbox, sendCalls, res>>

\* account.findUnique, with include: { user: true }.
ghFindAccount(r) ==
    /\ r.pc = "resolved"
    /\ LET found == FindAccount(accounts, "github", ToString(r.githubUser.id)) IN
       inflight' = (inflight \ {r}) \cup
          {IF found = {} THEN [r EXCEPT !.pc = "noAccount"]
           ELSE LET acc == CHOOSE a \in found : TRUE IN
                [r EXCEPT !.pc = "account", !.account = <<acc>>,
                          !.user = <<CHOOSE u \in users : u.id = acc.userId>>]}
    /\ UNCHANGED <<users, accounts, tokens, issued, now, ticks, client, redeemed, outbox, sendCalls, res>>

\* Existing account: user.update of the owner.
ghUpdateUser(r) ==
    /\ r.pc = "account"
    /\ LET owner == CHOOSE u \in users : u.id = r.account[1].userId
           data == RefreshUser(r.user[1], r.githubUser, r.primaryEmail)
           user == [owner EXCEPT !.name = data.name, !.avatarUrl = data.avatarUrl,
                                 !.email = IF data.email # r.user[1].email
                                           THEN data.email ELSE owner.email]
       IN  IF user.email # owner.email /\ ~EmailFree(users, user.email)
           THEN /\ Finish(r, "INTERNAL_SERVER_ERROR", MsgStoreFailed, <<>>)
                /\ UNCHANGED users
           ELSE /\ users' = (users \ {owner}) \cup {user}
                /\ inflight' = (inflight \ {r}) \cup {[r EXCEPT !.pc = "userUpdated"]}
                /\ UNCHANGED res
    /\ UNCHANGED <<accounts, tokens, issued, now, ticks, client, redeemed, outbox, sendCalls>>

\* Existing account: account.update of the access token, then the JWT.
ghUpdateAccount(r) ==
    /\ r.pc = "userUpdated"
    /\ LET acc == CHOOSE a \in accounts : a.id = r.account[1].id IN
       accounts' = (accounts \ {acc}) \cup {UpdateAccountToken(acc, r.accessToken)}
    /\ Finish(r, "OK", NULL, JwtSign(r.account[1].userId, now))
    /\ UNCHANGED <<users, tokens, issued, now, ticks, client, redeemed, outbox, sendCalls>>

\* No account: user.findUnique by the resolved e-mail, if there is one.
ghFindUser(r) ==
    /\ r.pc = "noAccount"
    /\ LET found == IF Truthy(r.primaryEmail)
                    THEN FindUserByEmail(users, r.primaryEmail) ELSE {}
       IN  inflight' = (inflight \ {r}) \cup
              {IF found = {} THEN [r EXCEPT !.pc = "noUser"]
               ELSE [r EXCEPT !.pc = "user", !.user = <<CHOOSE u \in found : TRUE>>]}
    /\ UNCHANGED <<users, accounts, tokens, issued, now, ticks, client, redeemed, outbox, sendCalls, res>>

\* Link: account.create for the user found.
ghLinkAccount(r) ==
    /\ r.pc = "user"
    /\ LET githubId == ToString(r.githubUser.id) IN
       IF AccountKeyFree(accounts, "github", githubId)
       THEN /\ accounts' = accounts \cup
                  {NewAccount(accounts, r.user[1].id, githubId, r.accessToken)}
            /\ inflight' = (inflight \ {r}) \cup {[r EXCEPT !.pc = "linked"]}
            /\ UNCHANGED res
       ELSE /\ Finish(r, "INTERNAL_SERVER_ERROR", MsgStoreFailed, <<>>)
            /\ UNCHANGED accounts
    /\ UNCHANGED <<users, tokens, issued, now, ticks, client, redeemed, outbox, sendCalls>>

\* Link: user.update of the profile from the row read before, then the JWT.
ghUpdateLinked(r) ==
    /\ r.pc = "linked"
    /\ LET row == CHOOSE u \in users : u.id = r.user[1].id
           data == BackfillUser(r.user[1], r.githubUser)
       IN  users' = (users \ {row}) \cup
              {[row EXCEPT !.name = data.name, !.avatarUrl = data.avatarUrl]}
    /\ Finish(r, "OK", NULL, JwtSign(r.user[1].id, now))
    /\ UNCHANGED <<accounts, tokens, issued, now, ticks, client, redeemed, outbox, sendCalls>>

\* New user: user.create with the nested account, one store operation,
\* then the JWT.
ghCreateUser(r) ==
    /\ r.pc = "noUser"
    /\ LET githubId == ToString(r.githubUser.id)
           user == GithubNewUser(users, r.githubUser, githubId, r.primaryEmail)
       IN  IF EmailFree(users, user.email) /\ AccountKeyFree(accounts, "github", githubId)
           THEN /\ users' = users \cup {user}
                /\ accounts' = accounts \cup
                      {NewAccount(accounts, user.id, githubId, r.accessToken)}
                /\ Finish(r, "OK", NULL, JwtSign(user.id, now))
           ELSE /\ Finish(r, "INTERNAL_SERVER_ERROR", MsgStoreFailed, <<>>)
                /\ UNCHANGED <<users, accounts>>
    /\ UNCHANGED <<tokens, issued, now, ticks, client, redeemed, outbox, sendCalls>>

\* The profiles of one GitHub identity, with an address or none.
SameIdentityProfiles == {p \in NamedProfiles : p.id = 12345 /\ p.email # "x@x.com"}

\* githubAuth requests for the same GitHub identity, interleaved at their
\* store calls, next to a password user they may link to.
NextConc ==
    \/ signup("a@b.com", "Test123!@#")
    \/ \E rid \in 1..MaxInflight, td \in GoodTokenResponses,
          gu \in SameIdentityProfiles : ghFetch(rid, td, gu, FALSE, <<>>)
    \/ \E r \in inflight : ghResolve(r)
    \/ \E r \in inflight : ghFindAccount(r)
    \/ \E r \in inflight : ghUpdateUser(r)
    \/ \E r \in inflight : ghUpdateAccount(r)
    \/ \E r \in inflight : ghFindUser(r)
    \/ \E r \in inflight : ghLinkAccount(r)
    \/ \E r \in inflight : ghUpdateLinked(r)
    \/ \E r \in inflight : ghCreateUser(r)

SpecConc == Init /\ [][NextConc]_vars

\* ------------------------------------------------- the e-mail resolution

\* Entries of an e-mails answer.
MaxEmails == 2

\* The entries GitHub may list: three addresses, each flag either way.
GitHubEmailEntries ==
    {GitHubEmail(e, p, v) : e \in {"a@b.com", "x@x.com", "y@y.com"},
                            p \in BOOLEAN, v \in BOOLEAN}

\* Every list of at most MaxEmails entries.
BoundedEmailLists == UNION {[1..k -> GitHubEmailEntries] : k \in 0..MaxEmails}

\* One githubAuth request that has its answers from GitHub: any profile
\* e-mail, the e-mails call ok or not, any list.
InitResolve ==
    /\ users = {} /\ accounts = {} /\ tokens = {}
    /\ issued = 0 /\ now = 0 /\ ticks = 0
    /\ outbox = {} /\ sendCalls = 0 /\ res = NoResult
    /\ redeemed = [v \in TokenValues |-> 0]
    /\ client = NoClient
    /\ inflight \in
          {{Request(1, "fetched", gu, "gho_1", ok, el, NULL, <<>>, <<>>)} :
              gu \in BasicProfiles, ok \in BOOLEAN, el \in BoundedEmailLists}

NextResolve == \E r \in inflight : ghResolve(r)

SpecResolve == InitResolve /\ [][NextResolve]_vars

\* ------------------------------------------------- the profile refresh

\* Profiles whose name and avatar vary: either GitHub identity, a name or
\* none, one of two avatars, an address or none.
RichProfiles ==
    [id : GithubIds, login : {GithubLogin}, name : GithubNames,
     email : {"a@b.com", NULL},
     avatar_url : {GithubAvatar, "https://avatar2.url"}]

\* githubAuth with varying profiles and access tokens, next to a password
\* user that may be verified.
NextProfile ==
    \/ signup("a@b.com", "Test123!@#")
    \/ \E v \in TokenValues : verifyEmail(v)
    \/ \E td \in GoodTokenResponses, gu \in RichProfiles :
          githubAuth(td, TRUE, gu, FALSE, <<>>)

SpecProfile == Init /\ [][NextProfile]_vars

\* ------------------------------------------- githubAuth, fetch by fetch

\* An exchange check that looks at access_token alone.
ExchangeFailedNoTokenOnly(tokenData) == ~Truthy(tokenData.access_token)

\* tokenData.error || !tokenData.access_token
ExchangeFailed(tokenData) ==
    Truthy(tokenData.error) \/ ~Truthy(tokenData.access_token)

\* Step 1: the code is exchanged; a failed exchange ends the request.
ghExchange(rid, tokenData) ==
    /\ Cardinality(inflight) < MaxInflight
    /\ \A r \in inflight : r.rid # rid
    /\ IF ExchangeFailed(tokenData)
       THEN /\ res' = Result("githubAuth", <<>>, "BAD_REQUEST",
                             OrElse(tokenData.error_description, MsgExchangeFailed),
                             <<>>, NULL)
            /\ UNCHANGED inflight
       ELSE /\ inflight' = inflight \cup
                  {Request(rid, "exchanged", NoProfile, tokenData.access_token,
                           FALSE, <<>>, NULL, <<>>, <<>>)}
            /\ UNCHANGED res
    /\ UNCHANGED <<users, accounts, tokens, issued, now, ticks, client, redeemed, outbox, sendCalls>>

\* Step 2: the profile is fetched; a response that is not ok ends the
\* request.
ghProfile(r, profileOk, githubUser) ==
    /\ r.pc = "exchanged"
    /\ IF ~profileOk
       THEN /\ inflight' = inflight \ {r}
            /\ res' = Result("githubAuth", <<>>, "INTERNAL_SERVER_ERROR",
                             MsgProfileFailed, <<>>, NULL)
       ELSE /\ inflight' = (inflight \ {r}) \cup
                  {[r EXCEPT !.pc = "profiled", !.githubUser = githubUser]}
            /\ UNCHANGED res
    /\ UNCHANGED <<users, accounts, tokens, issued, now, ticks, client, redeemed, outbox, sendCalls>>

\* Step 3: the e-mails are fetched, ok or not.
ghEmails(r, emailsOk, emails) ==
    /\ r.pc = "profiled"
    /\ inflight' = (inflight \ {r}) \cup
          {[r EXCEPT !.pc = "fetched", !.emailsOk = emailsOk, !.emails = emails]}
    /\ UNCHANGED <<users, accounts, tokens, issued, now, ticks, client, redeemed, outbox, sendCalls, res>>

\* githubAuth requests for one GitHub identity, each GitHub call and each
\* store call a step of its own, next to a password user.
NextOAuth ==
    \/ signup("a@b.com", "Test123!@#")
    \/ \E rid \in 1..MaxInflight, td \in FailedTokenResponses \cup BasicTokenResponses :
          ghExchange(rid, td)
    \/ \E r \in inflight, ok \in BOOLEAN, gu \in SameIdentityProfiles :
          ghProfile(r, ok, IF ok THEN gu ELSE NoProfile)
    \/ \E r \in inflight, ok \in BOOLEAN : ghEmails(r, ok, <<>>)
    \/ \E r \in inflight : ghResolve(r)
    \/ \E r \in inflight : ghFindAccount(r)
    \/ \E r \in inflight : ghUpdateUser(r)
    \/ \E r \in inflight : ghUpdateAccount(r)
    \/ \E r \in inflight : ghFindUser(r)
    \/ \E r \in inflight : ghLinkAccount(r)
    \/ \E r \in inflight : ghUpdateLinked(r)
    \/ \E r \in inflight : ghCreateUser(r)

SpecOAuth == Init /\ [][NextOAuth]_vars

\* ------------------------------------------------------------ the context

\* A token as a request carries it: the payload it shows (none when it is
\* malformed) and whether its signature was made with JWT_SECRET.
BearerToken(payload, signed) == [payload |-> payload, signed |-> signed]

\* jwt.verify(token, JWT_SECRET) at time t (ms): the payload, or nothing
\* when it throws: malformed, wrong signature, or now >= exp in seconds.
JwtVerify(token, t) ==
    IF /\ token.payload # <<>>
       /\ token.signed
       /\ (t \div 1000) < token.payload[1].exp
    THEN token.payload ELSE <<>>

\* The Authorization header: absent, or a scheme prefix and a token.
AuthHeader(present, prefix, token) ==
    [present |-> present, prefix |-> prefix, token |-> token]

\* A context that accepts a token after any prefix.
createContextAnyPrefix(authHeader, t) ==
    IF ~authHeader.present THEN [user |-> <<>>]
    ELSE [user |-> JwtVerify(authHeader.token, t)]

\* createContext: user is a sequence of at most one decoded payload.
createContext(authHeader, t) ==
    IF ~(authHeader.present /\ authHeader.prefix = "Bearer ")
    THEN [user |-> <<>>]
    ELSE [user |-> JwtVerify(authHeader.token, t)]

\* The middleware of protectedProcedure: UNAUTHORIZED when ctx.user is null.
protectedProcedure(ctx) == IF ctx.user = <<>> THEN "UNAUTHORIZED" ELSE "OK"

\* Tokens a request may carry: those minted for either user at time 0 or
\* one second later, the same with a foreign signature, and a malformed one.
CarriedTokens ==
    {BearerToken(JwtSign(u, t0), s) : u \in 1..2, t0 \in {0, 1000}, s \in BOOLEAN}
        \cup {BearerToken(<<>>, FALSE)}

Headers ==
    {AuthHeader(FALSE, "", BearerToken(<<>>, FALSE))} \cup
    {AuthHeader(TRUE, p, tok) : p \in {"Bearer ", "bearer ", "Basic "},
                                tok \in CarriedTokens}

\* A request to a protected procedure arrives with this header.
callProtected(authHeader) ==
    LET ctx == createContext(authHeader, now) IN
    /\ res' = Result("protected", <<authHeader, now>>, protectedProcedure(ctx),
                     NULL, ctx.user, NULL)
    /\ UNCHANGED <<users, accounts, tokens, issued, now, ticks, client, redeemed, outbox, sendCalls,
                   inflight>>

\* Requests to a protected procedure while the clock runs, by a second or
\* by the lifetime of a session token.
NextContext ==
    \/ \E h \in Headers : callProtected(h)
    \/ \E d \in {1000, JwtExpiresIn * 1000} : Tick(d)

SpecContext == Init /\ [][NextContext]_vars

\* ------------------------------------- the password flows, call by call

\* A signup, resendVerification or verifyEmail request between two awaits:
\* its input, the token value and expiry it generated, and the rows it has
\* read (sequences of at most one row).
Call(rid, op, pc, email, password, token, n, expiresAt, found, user) ==
    [rid |-> rid, op |-> op, pc |-> pc, email |-> email, password |-> password,
     token |-> token, n |-> n, expiresAt |-> expiresAt, found |-> found, user |-> user]

\* A request may start; it takes the lowest free slot.
CanStart(rid) ==
    /\ rid \in 1..MaxInflight
    /\ \A r \in inflight : r.rid # rid
    /\ \A k \in 1..(rid - 1) : \E r \in inflight : r.rid = k

\* The input of the request, as the result records it.
CallInput(r) ==
    IF r.op = "signup" THEN <<r.email, r.password>>
    ELSE IF r.op = "verifyEmail" THEN <<r.token>>
    ELSE <<r.email>>

\* The request returns or throws.
FinishCall(r, code, message, token, email) ==
    /\ inflight' = inflight \ {r}
    /\ res' = Result(r.op, CallInput(r), code, message, token, email)

\* The request goes on to its next await.
Goto(r, next) == inflight' = (inflight \ {r}) \cup {next}

\* signup: user.findFirst by e-mail.
suCheck(rid, email, password) ==
    /\ CanStart(rid)
    /\ IF UserAlreadyExists(users, email)
       THEN /\ res' = Result("signup", <<email, password>>, "CONFLICT", MsgConflict,
                             <<>>, NULL)
            /\ UNCHANGED inflight
       ELSE /\ inflight' = inflight \cup
                  {Call(rid, "signup", "checked", email, password, NULL, 0, 0,
                        <<>>, <<>>)}
            /\ UNCHANGED res
    /\ UNCHANGED <<users, accounts, tokens, issued, now, ticks, client, redeemed, outbox, sendCalls>>

\* signup: the password is hashed and user.create runs; the store refuses
\* an e-mail that is taken by now.
suCreateUser(r) ==
    /\ r.op = "signup" /\ r.pc = "checked"
    /\ IF EmailFree(users, r.email)
       THEN /\ users' = users \cup {SignupUser(users, r.email, r.password)}
            /\ Goto(r, [r EXCEPT !.pc = "created"])
            /\ UNCHANGED res
       ELSE /\ FinishCall(r, "INTERNAL_SERVER_ERROR", MsgStoreFailed, <<>>, NULL)
            /\ UNCHANGED users
    /\ UNCHANGED <<accounts, tokens, issued, now, ticks, client, redeemed, outbox, sendCalls>>

\* signup and resendVerification: the token and its expiry are generated,
\* then emailVerificationToken.deleteMany runs.
DeleteStep(r, pc) ==
    /\ r.pc = pc
    /\ issued < MaxTokens
    /\ issued' = issued + 1
    /\ tokens' = DeleteManyTokens(tokens, r.email)
    /\ Goto(r, [r EXCEPT !.pc = "deleted", !.n = issued + 1,
                         !.token = generateVerificationToken(issued + 1),
                         !.expiresAt = now + VerificationTTL])
    /\ UNCHANGED <<users, accounts, now, ticks, client, redeemed, outbox, sendCalls, res>>

suDeleteTokens(r) == r.op = "signup" /\ DeleteStep(r, "created")

\* signup: emailVerificationToken.create, then the send is started without
\* waiting and the result returned.
suCreateToken(r) ==
    /\ r.op = "signup" /\ r.pc = "deleted"
    /\ tokens' = CreateToken(tokens, r.n, r.email, r.expiresAt)
    /\ outbox' = outbox \cup {[email |-> r.email, token |-> r.token]}
    /\ sendCalls' = sendCalls + 1
    /\ FinishCall(r, "OK", MsgSignupOk, <<>>, r.email)
    /\ UNCHANGED <<users, accounts, issued, now, ticks, client, redeemed>>

\* resendVerification: user.findUnique by e-mail and the two early exits.
rsFindUser(rid, email) ==
    /\ CanStart(rid)
    /\ LET us == FindUserByEmail(users, email)
           r == Call(rid, "resendVerification", "found", email, NULL, NULL, 0, 0,
                     <<>>, <<>>)
       IN  IF us = {}
           THEN /\ res' = Result("resendVerification", <<email>>, "OK",
                                 MsgResendNoUser, <<>>, NULL)
                /\ UNCHANGED inflight
           ELSE IF AlreadyVerified(CHOOSE u \in us : TRUE)
           THEN /\ res' = Result("resendVerification", <<email>>, "BAD_REQUEST",
                                 MsgAlreadyVerified, <<>>, NULL)
                /\ UNCHANGED inflight
           ELSE /\ inflight' = inflight \cup {r}
                /\ UNCHANGED res
    /\ UNCHANGED <<users, accounts, tokens, issued, now, ticks, client, redeemed, outbox, sendCalls>>

rsDeleteTokens(r) == r.op = "resendVerification" /\ DeleteStep(r, "found")

\* resendVerification: emailVerificationToken.create.
rsCreateToken(r) ==
    /\ r.op = "resendVerification" /\ r.pc = "deleted"
    /\ tokens' = CreateToken(tokens, r.n, r.email, r.expiresAt)
    /\ Goto(r, [r EXCEPT !.pc = "tokenCreated"])
    /\ UNCHANGED <<users, accounts, issued, now, ticks, client, redeemed, outbox, sendCalls, res>>

\* resendVerification: the send is awaited, its result dropped.
rsSend(r, outcome) ==
    /\ r.op = "resendVerification" /\ r.pc = "tokenCreated"
    /\ sendVerificationEmail(outcome).threw = FALSE
    /\ sendCalls' = sendCalls + 1
    /\ FinishCall(r, "OK", MsgResendSent, <<>>, NULL)
    /\ UNCHANGED <<users, accounts, tokens, issued, now, ticks, client, redeemed, outbox>>

\* A delete that succeeds whether or not the row is still there.
TokenRowExistsAlways(toks, id) == TRUE

\* emailVerificationToken.delete({where: {id}}) finds its row; the store
\* rejects the call when it does not.
TokenRowExists(toks, id) == \E t \in toks : t.id = id

\* verifyEmail: emailVerificationToken.findUnique by token, the NOT_FOUND
\* exit and the expiry test on the row read.
vfFindToken(rid, token) ==
    /\ CanStart(rid)
    /\ LET found == FindToken(tokens, token) IN
       IF found = {}
       THEN /\ res' = Result("verifyEmail", <<token>>, "NOT_FOUND", MsgTokenNotFound,
                             <<>>, NULL)
            /\ UNCHANGED inflight
       ELSE LET vt == CHOOSE x \in found : TRUE IN
            /\ inflight' = inflight \cup
                  {Call(rid, "verifyEmail",
                        IF IsExpired(vt, now) THEN "expired" ELSE "tokenFound",
                        vt.email, NULL, token, 0, vt.expiresAt, <<vt>>, <<>>)}
            /\ UNCHANGED res
    /\ UNCHANGED <<users, accounts, tokens, issued, now, ticks, client, redeemed, outbox, sendCalls>>

\* verifyEmail: the expired row is deleted and BAD_REQUEST thrown.
vfDeleteExpired(r) ==
    /\ r.op = "verifyEmail" /\ r.pc = "expired"
    /\ IF TokenRowExists(tokens, r.found[1].id)
       THEN /\ tokens' = DeleteToken(tokens, r.found[1].id)
            /\ FinishCall(r, "BAD_REQUEST", MsgTokenExpired, <<>>, NULL)
       ELSE /\ FinishCall(r, "INTERNAL_SERVER_ERROR", MsgRecordGone, <<>>, NULL)
            /\ UNCHANGED tokens
    /\ UNCHANGED <<users, accounts, issued, now, ticks, client, redeemed, outbox, sendCalls>>

\* verifyEmail: user.findUnique by the row's e-mail.
vfFindUser(r) ==
    /\ r.op = "verifyEmail" /\ r.pc = "tokenFound"
    /\ LET us == FindUserByEmail(users, r.found[1].email) IN
       IF us = {}
       THEN FinishCall(r, "NOT_FOUND", MsgVerifyNoUser, <<>>, NULL)
       ELSE /\ Goto(r, [r EXCEPT !.pc = "userFound",
                                 !.user = <<CHOOSE u \in us : TRUE>>])
            /\ UNCHANGED res
    /\ UNCHANGED <<users, accounts, tokens, issued, now, ticks, client, redeemed, outbox, sendCalls>>

\* verifyEmail: user.update sets emailVerified.
vfUpdateUser(r) ==
    /\ r.op = "verifyEmail" /\ r.pc = "userFound"
    /\ users' = MarkVerified(users, r.user[1].id)
    /\ Goto(r, [r EXCEPT !.pc = "updated"])
    /\ UNCHANGED <<accounts, tokens, issued, now, ticks, client, redeemed, outbox, sendCalls, res>>

\* verifyEmail: the row is deleted by id, then the session token is signed
\* and returned.
vfDeleteToken(r) ==
    /\ r.op = "verifyEmail" /\ r.pc = "updated"
    /\ IF TokenRowExists(tokens, r.found[1].id)
       THEN /\ tokens' = DeleteToken(tokens, r.found[1].id)
            /\ FinishCall(r, "OK", NULL, JwtSign(r.user[1].id, now), NULL)
            /\ Redeem(r.token)
       ELSE /\ FinishCall(r, "INTERNAL_SERVER_ERROR", MsgRecordGone, <<>>, NULL)
            /\ UNCHANGED <<tokens, redeemed>>
    /\ UNCHANGED <<users, accounts, issued, now, ticks, client, outbox, sendCalls>>

\* Inputs of the interleaved runs.
RaceEmails == {"a@b.com"}

RacePassword == "Test123!@#"

RequestIds == 1..MaxInflight

\* Requests of the three password procedures that issue or consume a
\* verification token, interleaved between their store calls.
NextRace ==
    \/ \E rid \in RequestIds, e \in RaceEmails : suCheck(rid, e, RacePassword)
    \/ \E r \in inflight : suCreateUser(r)
    \/ \E r \in inflight : suDeleteTokens(r)
    \/ \E r \in inflight : suCreateToken(r)
    \/ \E rid \in RequestIds, e \in RaceEmails : rsFindUser(rid, e)
    \/ \E r \in inflight : rsDeleteTokens(r)
    \/ \E r \in inflight : rsCreateToken(r)
    \/ \E r \in inflight, o \in SendOutcomes : rsSend(r, o)
    \/ \E rid \in RequestIds, v \in TokenValues : vfFindToken(rid, v)
    \/ \E r \in inflight : vfFindUser(r)
    \/ \E r \in inflight : vfUpdateUser(r)
    \/ \E r \in inflight : vfDeleteToken(r)

SpecRace == Init /\ [][NextRace]_vars

\* ------------------------------------- the five procedures, any address

\* Addresses a caller may name in any procedure: an ordinary one and the
\* placeholder address of a GitHub identity; both pass z.string().email().
AnyEmails == {"a@b.com", PlaceholderEmail("12345")}

\* The five procedures, one call at a time, for one ordinary address and
\* one GitHub identity whose profile shows that address or none, where
\* every procedure that takes an address may be given the placeholder one.
NextAny ==
    \/ \E e \in AnyEmails, p \in Passwords : signup(e, p)
    \/ \E v \in TokenValues : verifyEmail(v)
    \/ \E e \in AnyEmails, o \in SendOutcomes : resendVerification(e, o)
    \/ \E e \in AnyEmails, p \in Passwords : login(e, p)
    \/ \E td \in BasicTokenResponses, gu \in BasicProfiles :
          githubAuth(td, TRUE, gu, FALSE, <<>>)

SpecAny == Init /\ [][NextAny]_vars

\* ------------------------------------ the password flows, two identities

\* Requests of the four password procedures for two addresses, interleaved
\* between their store calls; login makes one store call.
NextPair ==
    \/ \E rid \in RequestIds, e \in Emails : suCheck(rid, e, RacePassword)
    \/ \E r \in inflight : suCreateUser(r)
    \/ \E r \in inflight : suDeleteTokens(r)
    \/ \E r \in inflight : suCreateToken(r)
    \/ \E rid \in RequestIds, e \in Emails : rsFindUser(rid, e)
    \/ \E r \in inflight : rsDeleteTokens(r)
    \/ \E r \in inflight : rsCreateToken(r)
    \/ \E r \in inflight : rsSend(r, "ok")
    \/ \E rid \in RequestIds, v \in TokenValues : vfFindToken(rid, v)
    \/ \E r \in inflight : vfFindUser(r)
    \/ \E r \in inflight : vfUpdateUser(r)
    \/ \E r \in inflight : vfDeleteToken(r)
    \/ \E e \in Emails : login(e, RacePassword)

SpecPair == Init /\ [][NextPair]_vars

\* ------------------------------------------------- the session tokens

\* The caller of the last procedure presents the session token it was given
\* to a protected procedure, as the client does: "Bearer " and the token.
presentSession ==
    /\ res.op \in {"verifyEmail", "login", "githubAuth"}
    /\ res.token # <<>>
    /\ callProtected(AuthHeader(TRUE, "Bearer ", BearerToken(res.token, TRUE)))

\* The three procedures that return a session token, and the presentation
\* of that token while the clock runs by a second or by an hour less a
\* second.
NextSession ==
    \/ signup("a@b.com", "Test123!@#")
    \/ \E v \in TokenValues : verifyEmail(v)
    \/ \E p \in Passwords : login("a@b.com", p)
    \/ \E td \in BasicTokenResponses, gu \in BasicProfiles :
          githubAuth(td, TRUE, gu, FALSE, <<>>)
    \/ presentSession
    \/ \E d \in {1000, (JwtExpiresIn - 1) * 1000} : Tick(d)

SpecSession == Init /\ [][NextSession]_vars

\* ------------------------------------ the Next.js GitHub callback route

\* A resolution that never reads the e-mails response.
RoutePrimaryEmailProfileOnly(profileEmail, emailsOk, emails) == profileEmail

\* primaryEmail of the route: the profile's e-mail unless the e-mails
\* response is ok and has a verified entry, the primary one first.
RoutePrimaryEmail(profileEmail, emailsOk, emails) ==
    IF ~emailsOk THEN profileEmail
    ELSE LET hit(e) == e.primary /\ e.verified
             ver(e) == e.verified
             primary == Find(emails, hit)
             verified == Find(emails, ver)
         IN  IF primary # <<>> THEN primary[1].email
             ELSE IF verified # <<>> THEN verified[1].email
             ELSE profileEmail

\* prisma.user.update of the route's existing-account branch.
RouteRefreshUser(u, githubUser, primaryEmail) ==
    [u EXCEPT !.name = OrElse(githubUser.name, githubUser.login),
              !.avatarUrl = githubUser.avatar_url,
              !.email = IF Truthy(primaryEmail) /\ ~Truthy(u.email)
                        THEN primaryEmail ELSE u.email]

\* prisma.user.update of the route's link branch.
RouteBackfillUser(u, githubUser) ==
    [u EXCEPT !.name = OrElse(u.name, OrElse(githubUser.name, githubUser.login)),
              !.avatarUrl = OrElse(u.avatarUrl, githubUser.avatar_url)]

\* prisma.user.create data of the route's new-user branch.
RouteNewUser(us, githubUser, githubId, primaryEmail) ==
    [id |-> Cardinality(us) + 1,
     email |-> OrElse(primaryEmail, "github_" \o githubId \o "@placeholder.local"),
     passwordHash |-> NoHash, emailVerified |-> Truthy(primaryEmail),
     name |-> OrElse(githubUser.name, githubUser.login),
     avatarUrl |-> githubUser.avatar_url]

\* Where the route redirects to, and the tables it leaves.
Redirect(us, accs, location, error, token) ==
    [users |-> us, accounts |-> accs, location |-> location, error |-> error,
     token |-> token]

\* GET of the route, from the code exchange on, on tables us, accs at time
\* t: every throw inside the try ends in the redirect to /login.
RouteOutcome(us, accs, t, tokenData, profileOk, githubUser, emailsOk, emails) ==
    IF Truthy(tokenData.error) \/ ~Truthy(tokenData.access_token)
    THEN Redirect(us, accs, "/login",
                  OrElse(tokenData.error_description,
                         "Failed to exchange code for token"), <<>>)
    ELSE IF ~profileOk
    THEN Redirect(us, accs, "/login", "Failed to fetch GitHub user profile", <<>>)
    ELSE
    LET accessToken == tokenData.access_token
        primaryEmail == RoutePrimaryEmail(githubUser.email, emailsOk, emails)
        githubId == ToString(githubUser.id)
        existingAccount == {a \in accs : a.provider = "github"
                                          /\ a.providerAccountId = githubId}
    IN
    IF existingAccount # {}
    THEN LET acc == CHOOSE a \in existingAccount : TRUE
             owner == CHOOSE u \in us : u.id = acc.userId
             user == RouteRefreshUser(owner, githubUser, primaryEmail)
         IN  IF user.email # owner.email /\ \E u \in us : u.email = user.email
             THEN Redirect(us, accs, "/login", MsgStoreFailed, <<>>)
             ELSE Redirect((us \ {owner}) \cup {user},
                           (accs \ {acc}) \cup
                               {[acc EXCEPT !.accessToken = accessToken]},
                           "/auth/callback", NULL, JwtSign(user.id, t))
    ELSE LET existingUser == IF Truthy(primaryEmail)
                             THEN {u \in us : u.email = primaryEmail} ELSE {}
         IN
         IF existingUser # {}
         THEN LET eu == CHOOSE u \in existingUser : TRUE
                  user == RouteBackfillUser(eu, githubUser)
              IN  Redirect((us \ {eu}) \cup {user},
                           accs \cup {[id |-> Cardinality(accs) + 1,
                                       userId |-> eu.id, provider |-> "github",
                                       providerAccountId |-> githubId,
                                       accessToken |-> accessToken]},
                           "/auth/callback", NULL, JwtSign(user.id, t))
         ELSE LET user == RouteNewUser(us, githubUser, githubId, primaryEmail) IN
              IF \E u \in us : u.email = user.email
              THEN Redirect(us, accs, "/login", MsgStoreFailed, <<>>)
              ELSE Redirect(us \cup {user},
                            accs \cup {[id |-> Cardinality(accs) + 1,
                                        userId |-> user.id, provider |-> "github",
                                        providerAccountId |-> githubId,
                                        accessToken |-> accessToken]},
                            "/auth/callback", NULL, JwtSign(user.id, t))

\* The browser arrives at the route with a code; JWT_SECRET is configured,
\* as it must be for the API server to start.
GET(tokenData, profileOk, githubUser, emailsOk, emails) ==
    LET o == RouteOutcome(users, accounts, now, tokenData, profileOk, githubUser,
                          emailsOk, emails)
    IN
    /\ users' = o.users
    /\ accounts' = o.accounts
    /\ res' = Result("GET",
                     IF o.location = "/login" THEN <<>>
                     ELSE <<ToString(githubUser.id),
                            RoutePrimaryEmail(githubUser.email, emailsOk, emails)>>,
                     o.location, o.error, o.token, NULL)
    /\ UNCHANGED <<tokens, issued, now, ticks, client, redeemed, inflight, outbox, sendCalls>>

\* The e-mail lists tried through both entries: none, an unverified primary
\* entry, and a verified entry before an unverified primary one.
CallbackEmailLists ==
    {el \in EmailLists : el = <<>> \/ el[1].email = "x@x.com" \/ ~el[1].verified}

\* The sign-ins with GitHub through either entry, for two identities, next
\* to signups that may hold the address the sign-in needs.
NextCallback ==
    \/ \E e \in {"x@x.com", PlaceholderEmail("12345")} : signup(e, "Test123!@#")
    \/ \E td \in FailedTokenResponses :
          \/ githubAuth(td, FALSE, NoProfile, FALSE, <<>>)
          \/ GET(td, FALSE, NoProfile, FALSE, <<>>)
    \/ \E td \in BasicTokenResponses :
          \/ githubAuth(td, FALSE, NoProfile, FALSE, <<>>)
          \/ GET(td, FALSE, NoProfile, FALSE, <<>>)
    \/ \E td \in GoodTokenResponses, gu \in NamedProfiles :
          \/ githubAuth(td, TRUE, gu, FALSE, <<>>)
          \/ GET(td, TRUE, gu, FALSE, <<>>)
          \/ \E el \in CallbackEmailLists : githubAuth(td, TRUE, gu, TRUE, el)
          \/ \E el \in CallbackEmailLists : GET(td, TRUE, gu, TRUE, el)

SpecCallback == Init /\ [][NextCallback]_vars

\* ------------------------------------------------------------ the client

\* isTokenExpired(token) at time t (ms): no token, or exp more than five
\* seconds behind the clock's second.
isTokenExpired(token, t) ==
    IF token = <<>> THEN TRUE ELSE token[1].exp < (t \div 1000) - 5

\* getTimeUntilExpiration(token) at time t (ms), for a stored token.
getTimeUntilExpiration(token, t) ==
    LET timeUntilExpiration == token[1].exp * 1000 - t IN
    IF timeUntilExpiration > 0 THEN timeUntilExpiration ELSE 0

\* logout(redirectTo, true): the token is removed, the flag set, and the
\* assignment to window.location.href loads a new page, which ends every
\* timer of the old one.
logout(c) ==
    [c EXCEPT !.token = <<>>, !.sessionExpired = TRUE,
              !.timeout = NoTimer, !.interval = NoTimer]

\* onSuccess of the login and verify-email pages: the session token just
\* returned is stored; router.push keeps the page, and its timers.
onSuccess ==
    /\ res.op \in {"login", "verifyEmail"} /\ res.token # <<>>
    /\ client.token # res.token
    /\ client' = [client EXCEPT !.token = res.token]
    /\ UNCHANGED <<users, accounts, tokens, issued, now, ticks, outbox, sendCalls, res,
                   inflight, redeemed>>

\* A page is loaded and TokenMonitor's effect runs, once.
TokenMonitor ==
    LET c == [client EXCEPT !.timeout = NoTimer, !.interval = NoTimer]
        token == client.token
    IN
    /\ client' =
          IF token = <<>> THEN c
          ELSE IF isTokenExpired(token, now) THEN logout(c)
          ELSE IF getTimeUntilExpiration(token, now) <= 0 THEN logout(c)
          ELSE [c EXCEPT
                  !.timeout =
                      now + (IF getTimeUntilExpiration(token, now) - 1000 > 0
                             THEN getTimeUntilExpiration(token, now) - 1000 ELSE 0),
                  !.interval = now]
    /\ client' # client
    /\ UNCHANGED <<users, accounts, tokens, issued, now, ticks, outbox, sendCalls, res,
                   inflight, redeemed>>

\* The setTimeout of TokenMonitor runs, when it is due or later.
timeoutFires ==
    /\ client.timeout # NoTimer /\ now >= client.timeout
    /\ client' = logout(client)
    /\ UNCHANGED <<users, accounts, tokens, issued, now, ticks, outbox, sendCalls, res,
                   inflight, redeemed>>

\* The setInterval of TokenMonitor runs, when a 30 second period has
\* passed or later; interval then holds the start of the current period.
intervalFires ==
    /\ client.interval # NoTimer /\ now >= client.interval + 30000
    /\ client' =
          IF client.token # <<>> /\ isTokenExpired(client.token, now)
          THEN logout(client)
          ELSE [client EXCEPT
                  !.interval = @ + 30000 * ((now - @) \div 30000)]
    /\ UNCHANGED <<users, accounts, tokens, issued, now, ticks, outbox, sendCalls, res,
                   inflight, redeemed>>

\* headers() of the tRPC client, called for every request: what it sends.
headers ==
    LET token == client.token IN
    /\ IF token # <<>> /\ isTokenExpired(token, now)
       THEN /\ client' = logout(client)
            /\ res' = Result("headers", <<now>>, "NONE", NULL, <<>>, NULL)
       ELSE /\ res' = Result("headers", <<now>>,
                             IF token # <<>> THEN "Authorization" ELSE "NONE",
                             NULL, token, NULL)
            /\ UNCHANGED client
    /\ UNCHANGED <<users, accounts, tokens, issued, now, ticks, outbox, sendCalls,
                   inflight, redeemed>>

\* One user signs up, verifies and logs in from a browser that loads
\* pages, sends requests and lets time pass: 30 seconds, an hour less a
\* second, 3 seconds, 7 seconds.
NextClient ==
    \/ signup("a@b.com", "Test123!@#")
    \/ \E v \in TokenValues : verifyEmail(v)
    \/ login("a@b.com", "Test123!@#")
    \/ onSuccess
    \/ TokenMonitor
    \/ timeoutFires
    \/ intervalFires
    \/ headers
    \/ \E d \in {30000, (JwtExpiresIn - 1) * 1000, 3000, 7000} : Tick(d)

SpecClient == Init /\ [][NextClient]_vars

\* ------------------------------------------------ the OAuth state check

\* The values crypto.randomUUID may return to handleGitHubLogin.
OAuthStates == {"uuid-1", "uuid-2"}

\* handleGitHubLogin of the login page: a fresh state is saved in
\* sessionStorage and the browser leaves for GitHub.
handleGitHubLogin(state) ==
    /\ client' = [client EXCEPT !.oauthState = state,
                                !.timeout = NoTimer, !.interval = NoTimer]
    /\ UNCHANGED <<users, accounts, tokens, issued, now, ticks, outbox, sendCalls, res,
                   inflight, redeemed>>

\* What the effect of AuthCallbackPage leaves in the browser, for the
\* search parameters token, state and error (NULL: parameter absent).
AuthCallbackPageOutcome(c, token, state, error) ==
    LET savedState == c.oauthState
        loaded == [c EXCEPT !.timeout = NoTimer, !.interval = NoTimer]
    IN
    IF Truthy(error)
    THEN [client |-> loaded, status |-> "error", errorMessage |-> error]
    ELSE IF token = <<>>
    THEN [client |-> loaded, status |-> "error",
          errorMessage |-> "No authentication token received"]
    ELSE IF Truthy(state) /\ Truthy(savedState) /\ state # savedState
    THEN [client |-> [loaded EXCEPT !.oauthState = NULL], status |-> "error",
          errorMessage |-> "State mismatch - possible CSRF attack"]
    ELSE [client |-> [loaded EXCEPT !.oauthState = NULL, !.token = token],
          status |-> "success", errorMessage |-> ""]

\* The browser loads /auth/callback with the given search parameters.
AuthCallbackPage(token, state, error) ==
    LET o == AuthCallbackPageOutcome(client, token, state, error)
    IN
    /\ client' = o.client
    /\ res' = Result("AuthCallbackPage", <<state, client.oauthState>>, o.status,
                     o.errorMessage, token, NULL)
    /\ UNCHANGED <<users, accounts, tokens, issued, now, ticks, outbox, sendCalls,
                   inflight, redeemed>>

\* The state parameters a callback URL may carry: none, an empty one, or
\* a value.
UrlStates == {NULL, ""} \cup OAuthStates

\* Sign-ins with GitHub from the login page: the route redirects to the
\* callback page with the token it signed; a callback URL may also be
\* opened with any state, with an error, or without a token.
NextState ==
    \/ \E s \in OAuthStates : handleGitHubLogin(s)
    \/ \E td \in GoodTokenResponses, gu \in NamedProfiles : GET(td, TRUE, gu, FALSE, <<>>)
    \/ \E td \in FailedTokenResponses : GET(td, FALSE, NoProfile, FALSE, <<>>)
    \/ \E s \in UrlStates :
          \/ res.op = "GET" /\ res.token # <<>> /\ AuthCallbackPage(res.token, s, NULL)
          \/ AuthCallbackPage(<<>>, s, NULL)
          \/ AuthCallbackPage(<<>>, s, "access_denied")
    \/ Tick(1000)

SpecState == Init /\ [][NextState]_vars

\* ---------------------------------------------------------------- claims

StoreVars == <<users, accounts, tokens, issued, outbox, sendCalls>>

\* The users with this id (at most one).
UserById(us, id) == {u \in us : u.id = id}
\* The verification tokens stored for an e-mail.
TokensOf(toks, email) == {t \in toks : t.email = email}
\* The user a session token was minted for had emailVerified = true.
MintedForVerified ==
    res.token # <<>> =>
        \E u \in UserById(users, res.token[1].userId) : u.emailVerified

\* C1 (as stated): no procedure ever returns a session token for a user
\* whose emailVerified is false.
C1_NoSessionForUnverified == MintedForVerified

\* C1 (amended): signup, resendVerification, verifyEmail and login never
\* return a session token for a user whose emailVerified is false; only
\* githubAuth does.
C1_PasswordFlowsMintForVerified ==
    res.op \in {"signup", "resendVerification", "verifyEmail", "login"}
        => MintedForVerified

\* A login has returned a session token.
C1_Witness == res.op = "login" /\ res.code = "OK" /\ res.token # <<>>

\* C2: with the requests run one at a time, every e-mail has at most one
\* stored verification token.
C2_AtMostOneTokenPerEmail ==
    \A e \in Emails : Cardinality(TokensOf(tokens, e)) <= 1

\* More tokens were issued than there are e-mails, so some e-mail was
\* issued a second token, and the latest token is stored.
C2_Witness ==
    /\ issued > Cardinality(Emails)
    /\ \E t \in tokens : t.id = issued

\* C3: a signup with a fresh e-mail succeeds with {message, email} and no
\* session token, creates exactly one user for the e-mail, with a password
\* hash and emailVerified = false, leaves exactly one live token for the
\* e-mail, and a login with the same input right after is FORBIDDEN.
C3_FreshSignup ==
    [][\A e \in Emails, p \in Passwords :
        (FindUserByEmail(users, e) = {} /\ signup(e, p)) =>
            /\ res'.code = "OK" /\ res'.message = MsgSignupOk /\ res'.email = e
            /\ res'.token = <<>>
            /\ Cardinality(users') = Cardinality(users) + 1
            /\ Cardinality(FindUserByEmail(users', e)) = 1
            /\ \A u \in FindUserByEmail(users', e) :
                  /\ u.passwordHash # NoHash
                  /\ PasswordVerify(p, u.passwordHash)
                  /\ u.emailVerified = FALSE
            /\ Cardinality(TokensOf(tokens', e)) = 1
            /\ \A t \in TokensOf(tokens', e) : t.expiresAt > now'
            /\ LoginResult(users', e, p, now').code = "FORBIDDEN"]_vars

\* A signup has succeeded.
C3_Witness ==
    /\ res.op = "signup" /\ res.code = "OK"
    /\ \E u \in FindUserByEmail(users, res.email) : ~u.emailVerified

\* C4: a signup with an e-mail that has a user fails with CONFLICT and
\* changes nothing: no user, no token, no e-mail dispatched.
C4_SignupConflict ==
    [][\A e \in Emails, p \in Passwords :
        (FindUserByEmail(users, e) # {} /\ signup(e, p)) =>
            /\ res'.code = "CONFLICT"
            /\ res'.token = <<>>
            /\ UNCHANGED StoreVars]_vars

\* A signup was refused for the e-mail of a verified user that githubAuth
\* created (it has no password).
C4_Witness ==
    /\ res.op = "signup" /\ res.code = "CONFLICT"
    /\ \E u \in FindUserByEmail(users, res.input[1]) :
          u.passwordHash = NoHash /\ u.emailVerified

\* C5: verifyEmail with the token that a signup mailed, while the token is
\* stored and not expired, marks the user of that signup verified, deletes
\* the token and returns a session token for that user's id; verifyEmail
\* with the same token then ends NOT_FOUND.
C5_RoundTrip ==
    [][\A m \in outbox :
        (/\ FindToken(tokens, m.token) # {}
         /\ \A t \in FindToken(tokens, m.token) : t.expiresAt >= now
         /\ verifyEmail(m.token)) =>
            /\ FindUserByEmail(users, m.email) # {}
            /\ \A u \in FindUserByEmail(users, m.email) :
                  /\ \E w \in UserById(users', u.id) : w.emailVerified
                  /\ res'.token # <<>>
                  /\ res'.token[1].userId = u.id
            /\ res'.code = "OK"
            /\ \A t \in tokens' : t.token # m.token
            /\ VerifyOutcome(users', tokens', m.token, now').code = "NOT_FOUND"]_vars

\* verifyEmail has succeeded with the only token issued so far, a signup's.
C5_Witness ==
    /\ res.op = "verifyEmail" /\ res.code = "OK" /\ issued = 1
    /\ \E m \in outbox : m.token = res.input[1]
    /\ \A u \in users : u.emailVerified

\* C6: verifyEmail with a stored token whose expiresAt is in the past ends
\* BAD_REQUEST, deletes exactly that token, leaves the users as they were
\* (the token's user unverified) and mints no session token; verifyEmail
\* with the same token then ends NOT_FOUND.
C6_ExpiredToken ==
    [][\A v \in TokenValues : \A t \in tokens :
        (t.token = v /\ t.expiresAt < now /\ verifyEmail(v)) =>
            /\ res'.code = "BAD_REQUEST"
            /\ res'.token = <<>>
            /\ tokens' = tokens \ {t}
            /\ users' = users
            /\ \A u \in FindUserByEmail(users', t.email) : ~u.emailVerified
            /\ VerifyOutcome(users', tokens', v, now').code = "NOT_FOUND"]_vars

\* verifyEmail has refused an expired token, whose user stays unverified.
C6_Witness ==
    /\ res.op = "verifyEmail" /\ res.code = "BAD_REQUEST"
    /\ \A t \in tokens : t.token # res.input[1]
    /\ \E u \in users : ~u.emailVerified /\ TokensOf(tokens, u.email) = {}

\* C7: verifyEmail with a value that matches no stored token ends
\* NOT_FOUND and changes nothing: no user, no token, no session token.
C7_UnknownToken ==
    [][\A v \in TokenValues :
        ((\A t \in tokens : t.token # v) /\ verifyEmail(v)) =>
            /\ res'.code = "NOT_FOUND"
            /\ res'.token = <<>>
            /\ UNCHANGED StoreVars]_vars

\* verifyEmail has refused an unknown value while another token is stored
\* for an unverified user.
C7_Witness ==
    /\ res.op = "verifyEmail" /\ res.code = "NOT_FOUND"
    /\ tokens # {}
    /\ \A t \in tokens : t.token # res.input[1]
    /\ \E u \in users : ~u.emailVerified

\* C8: once a user's emailVerified is true, it is true in every later
\* state.
C8_VerifiedIsTerminal ==
    [][\A u \in users : u.emailVerified =>
          \E w \in UserById(users', u.id) : w.emailVerified]_vars

\* githubAuth has returned a session for a password user that was
\* verified.
C8_Witness ==
    /\ res.op = "githubAuth" /\ res.code = "OK"
    /\ \E u \in UserById(users, res.token[1].userId) :
          u.emailVerified /\ u.passwordHash # NoHash

\* The code login is to end with, in the order of the checks.
ExpectedLoginCode(us, email, password) ==
    IF ~\E u \in us : u.email = email /\ u.passwordHash # NoHash THEN "NOT_FOUND"
    ELSE IF \E u \in us : u.email = email /\ ~u.emailVerified THEN "FORBIDDEN"
    ELSE IF \E u \in us : u.email = email /\ u.passwordHash # PasswordHash(password)
    THEN "UNAUTHORIZED"
    ELSE "OK"

\* C9: login ends NOT_FOUND without a user or without a password hash, else
\* FORBIDDEN while emailVerified is false whatever the password, else
\* UNAUTHORIZED on a wrong password, else returns a session token with the
\* user's id.
C9_LoginOrder ==
    res.op = "login" =>
        /\ res.code = ExpectedLoginCode(users, res.input[1], res.input[2])
        /\ res.code # "OK" => res.token = <<>>
        /\ res.code = "OK" =>
              /\ res.token # <<>>
              /\ \E u \in FindUserByEmail(users, res.input[1]) :
                    res.token[1].userId = u.id

\* login has ended FORBIDDEN for an unverified user although the password
\* was wrong.
C9_Witness ==
    /\ res.op = "login" /\ res.code = "FORBIDDEN"
    /\ \E u \in FindUserByEmail(users, res.input[1]) :
          ~PasswordVerify(res.input[2], u.passwordHash)

\* C10: resendVerification for an e-mail without a user returns the
\* message of a successful resend and changes nothing: no token created or
\* deleted, no e-mail sent.
C10_ResendUnknownEmail ==
    [][\A e \in Emails, o \in SendOutcomes :
        (FindUserByEmail(users, e) = {} /\ resendVerification(e, o)) =>
            /\ res'.code = "OK"
            /\ res'.message = MsgResendSent
            /\ res'.token = <<>>
            /\ UNCHANGED StoreVars]_vars

\* resendVerification has answered for an e-mail without a user while a
\* token of another e-mail is stored.
C10_Witness ==
    /\ res.op = "resendVerification" /\ res.code = "OK"
    /\ FindUserByEmail(users, res.input[1]) = {}
    /\ tokens # {}

\* C11: resendVerification for the e-mail of a user whose emailVerified is
\* true ends BAD_REQUEST and changes nothing: no token deleted, no token
\* created, no e-mail sent.
C11_ResendAlreadyVerified ==
    [][\A e \in Emails, o \in SendOutcomes :
        (/\ \E u \in FindUserByEmail(users, e) : u.emailVerified
         /\ resendVerification(e, o)) =>
            /\ res'.code = "BAD_REQUEST"
            /\ res'.message = MsgAlreadyVerified
            /\ res'.token = <<>>
            /\ UNCHANGED StoreVars]_vars

\* resendVerification has refused a verified password user while a token
\* (of another e-mail) is stored.
C11_Witness ==
    /\ res.op = "resendVerification" /\ res.code = "BAD_REQUEST"
    /\ \E u \in FindUserByEmail(users, res.input[1]) :
          u.emailVerified /\ u.passwordHash # NoHash
    /\ tokens # {}

\* C12: a resendVerification for an unverified user leaves exactly one
\* token for the e-mail, the one this call issued, not yet expired; every
\* token the e-mail had before (an earlier resend's or the signup's) is
\* deleted, and verifyEmail with it ends NOT_FOUND.
C12_ResendSupersedes ==
    [][\A e \in Emails, o \in SendOutcomes :
        (/\ \E u \in FindUserByEmail(users, e) : ~u.emailVerified
         /\ resendVerification(e, o)) =>
            /\ Cardinality(TokensOf(tokens', e)) = 1
            /\ \A t \in TokensOf(tokens', e) :
                  /\ t.id = issued'
                  /\ t.token = generateVerificationToken(issued')
                  /\ t.expiresAt > now'
            /\ \A t \in TokensOf(tokens, e) :
                  /\ t \notin tokens'
                  /\ VerifyOutcome(users', tokens', t.token, now').code = "NOT_FOUND"]_vars

\* The only user has been issued three tokens, a signup's and two
\* resends', and the last resend's is the only one stored.
C12_Witness ==
    /\ res.op = "resendVerification" /\ res.code = "OK"
    /\ Cardinality(users) = 1 /\ issued = 3
    /\ \A u \in users : u.email = res.input[1] /\ ~u.emailVerified
    /\ \E t \in tokens : t.id = 3 /\ tokens = {t}

\* C13 (as stated): when resendVerification reaches the send for an
\* unverified user and the delivery fails (the provider answers with an
\* error, or the call to it throws), the call does not return its success
\* message.
C13_ResendSendFailurePropagates ==
    [][\A e \in Emails, o \in SendOutcomes \ {"ok"} :
        (/\ \E u \in FindUserByEmail(users, e) : ~u.emailVerified
         /\ resendVerification(e, o)) =>
            res'.code # "OK"]_vars

\* C14: a signup with a fresh e-mail returns its success result with the
\* user and the token stored while its verification e-mail is still in
\* flight, and the settling of that send, whatever its outcome, changes
\* neither the users nor the tokens nor the result: no failure, no
\* rollback.
C14_SignupIgnoresDelivery ==
    [][/\ \A e \in Emails, p \in Passwords :
            (FindUserByEmail(users, e) = {} /\ signup(e, p)) =>
                /\ res'.code = "OK" /\ res'.message = MsgSignupOk
                /\ FindUserByEmail(users', e) # {}
                /\ \E t \in TokensOf(tokens', e) :
                      [email |-> e, token |-> t.token] \in outbox' \ outbox
       /\ \A m \in outbox, o \in SendOutcomes :
            SendSettles(m, o) =>
                /\ users' = users /\ tokens' = tokens /\ res' = res
                /\ accounts' = accounts]_vars

\* The send of the last signup has settled, and the signup's result, user
\* and token are as they were.
C14_Witness ==
    /\ res.op = "signup" /\ res.code = "OK"
    /\ \A m \in outbox : m.email # res.email
    /\ FindUserByEmail(users, res.email) # {}
    /\ TokensOf(tokens, res.email) # {}

\* The accounts without their access tokens.
Links(accs) == {[id |-> a.id, userId |-> a.userId, provider |-> a.provider,
                 providerAccountId |-> a.providerAccountId] : a \in accs}

\* The last call was a githubAuth that got this profile and these e-mails
\* from GitHub and reached the reconciliation.
IsGithubStep(gu, ok, el) ==
    /\ res.op = "githubAuth"
    /\ res.input = <<ToString(gu.id), ResolvePrimaryEmail(gu.email, ok, el)>>

\* C15: whenever an account (github, id) exists, githubAuth for that id
\* returns a session for the account's owner and neither creates a user nor
\* links an account nor touches another user, whatever e-mail was resolved:
\* another user's, or one unlike the owner's, whose e-mail stays.
C15_AccountBeforeEmail ==
    [][\A gu \in NamedProfiles, ok \in BOOLEAN, el \in EmailLists, acc \in accounts :
        (/\ acc.provider = "github" /\ acc.providerAccountId = ToString(gu.id)
         /\ IsGithubStep(gu, ok, el)') =>
            \A td \in GoodTokenResponses : githubAuth(td, TRUE, gu, ok, el) =>
                /\ res'.code = "OK"
                /\ res'.token # <<>> /\ res'.token[1].userId = acc.userId
                /\ {u.id : u \in users'} = {u.id : u \in users}
                /\ Cardinality(users') = Cardinality(users)
                /\ \A u \in users : u.id # acc.userId => u \in users'
                /\ \A u \in users : u.id = acc.userId =>
                      \E w \in users' : w.id = u.id /\ w.email = u.email
                /\ Links(accounts') = Links(accounts)]_vars

\* githubAuth has returned a session for the owner of the account although
\* the e-mail resolved belongs to another user.
C15_Witness ==
    /\ res.op = "githubAuth" /\ res.code = "OK"
    /\ \E acc \in accounts, v \in users :
          /\ acc.providerAccountId = res.input[1]
          /\ acc.userId = res.token[1].userId
          /\ v.email = res.input[2]
          /\ v.id # acc.userId

\* C16: the first successful githubAuth for a GitHub id returns a session
\* for the user its new account belongs to, and every later successful
\* githubAuth for the id leaves the numbers of users and of accounts as they
\* were, stores the new access token on that account, whose owner stays,
\* and returns a session for the same user id.
C16_RepeatedGithubLogin ==
    [][\A gu \in NamedProfiles, ok \in BOOLEAN, el \in EmailLists :
        (IsGithubStep(gu, ok, el)' /\ res'.code = "OK") =>
            \A td \in GoodTokenResponses : githubAuth(td, TRUE, gu, ok, el) =>
                IF \E a \in accounts : a.providerAccountId = ToString(gu.id)
                THEN \A acc \in accounts : acc.providerAccountId = ToString(gu.id) =>
                        /\ Cardinality(users') = Cardinality(users)
                        /\ Cardinality(accounts') = Cardinality(accounts)
                        /\ \E a \in accounts' :
                              /\ a.id = acc.id /\ a.userId = acc.userId
                              /\ a.providerAccountId = acc.providerAccountId
                              /\ a.accessToken = td.access_token
                        /\ res'.token[1].userId = acc.userId
                ELSE \E a \in accounts' :
                        /\ a.providerAccountId = ToString(gu.id)
                        /\ a.userId = res'.token[1].userId
                        /\ accounts' = accounts \cup {a}]_vars

\* A later githubAuth for the only GitHub id has succeeded: the e-mail it
\* resolved is not the owner's, and the account holds the access token of
\* this call.
C16_Witness ==
    /\ res.op = "githubAuth" /\ res.code = "OK"
    /\ Cardinality(users) = 1 /\ Cardinality(accounts) = 1
    /\ res.input[2] # NULL
    /\ \A u \in users : u.email # res.input[2] /\ u.id = res.token[1].userId
    /\ \A a \in accounts : a.providerAccountId = res.input[1] /\ a.accessToken = "gho_2"

\* C19 (as stated): when the e-mails call does not return success,
\* githubAuth does not fail: it reconciles with the profile's e-mail field
\* as the resolved e-mail and returns a session token.
C19_EmailsFetchBestEffort ==
    [][\A td \in GoodTokenResponses, gu \in NamedProfiles :
        githubAuth(td, TRUE, gu, FALSE, <<>>) =>
            /\ res'.input = <<ToString(gu.id), gu.email>>
            /\ res'.code = "OK"
            /\ res'.token # <<>>]_vars

\* C20 (as stated): when githubAuth finds neither an account for the GitHub
\* id nor a user with the resolved e-mail, it creates exactly one user,
\* whose e-mail is the resolved one or else the placeholder of the id,
\* without a password hash, with emailVerified true iff an e-mail was
\* resolved, and exactly one account, owned by that user.
C20_GithubCreatesUser ==
    [][\A gu \in NamedProfiles, ok \in BOOLEAN, el \in EmailLists :
        LET pe == ResolvePrimaryEmail(gu.email, ok, el)
            githubId == ToString(gu.id)
        IN  (/\ \A a \in accounts : a.providerAccountId # githubId
             /\ pe # NULL => FindUserByEmail(users, pe) = {}
             /\ IsGithubStep(gu, ok, el)') =>
                \A td \in GoodTokenResponses : githubAuth(td, TRUE, gu, ok, el) =>
                    \E u \in users', a \in accounts' :
                        /\ users' = users \cup {u} /\ u \notin users
                        /\ accounts' = accounts \cup {a} /\ a \notin accounts
                        /\ a.userId = u.id /\ a.providerAccountId = githubId
                        /\ a.provider = "github"
                        /\ u.email = (IF pe # NULL THEN pe
                                       ELSE "github_" \o githubId \o "@placeholder.local")
                        /\ u.passwordHash = NoHash
                        /\ u.emailVerified = (pe # NULL)]_vars

\* C17: in every reachable state, with githubAuth requests for the same
\* GitHub identity interleaved at their store calls, there is at most one
\* account for each pair (provider, providerAccountId), and the userId of
\* every account is the id of a stored user.
C17_OneAccountPerIdentity ==
    /\ \A a \in accounts, b \in accounts :
          (a.provider = b.provider /\ a.providerAccountId = b.providerAccountId)
              => a = b
    /\ \A a \in accounts : \E u \in users : u.id = a.userId

\* Two requests for the same identity both found no account; one created
\* it, and the other was refused by the store.
C17_Witness ==
    /\ res.op = "githubAuth" /\ res.code = "INTERNAL_SERVER_ERROR"
    /\ inflight = {}
    /\ Cardinality({a \in accounts : a.providerAccountId = res.input[1]}) = 1

\* The entries of a list that satisfy both flags, or the verified flag.
PrimaryVerified(el) == {i \in 1..Len(el) : el[i].primary /\ el[i].verified}
Verified(el) == {i \in 1..Len(el) : el[i].verified}

\* C18: when the e-mails call succeeds, the resolved e-mail is that of the
\* first entry with primary and verified both true; without one, that of
\* the first entry with verified true; without one, the profile's e-mail
\* field, which may be null.  For [{x@x.com, primary false, verified true},
\* {y@y.com, primary true, verified false}] it is x@x.com.
C18_EmailSelection ==
    \A r \in inflight : (r.pc = "resolved" /\ r.emailsOk) =>
        LET el == r.emails IN
        /\ PrimaryVerified(el) # {} =>
              \E i \in PrimaryVerified(el) :
                  /\ \A j \in PrimaryVerified(el) : i <= j
                  /\ r.primaryEmail = el[i].email
        /\ (PrimaryVerified(el) = {} /\ Verified(el) # {}) =>
              \E i \in Verified(el) :
                  /\ \A j \in Verified(el) : i <= j
                  /\ r.primaryEmail = el[i].email
        /\ Verified(el) = {} => r.primaryEmail = r.githubUser.email
        /\ el = <<GitHubEmail("x@x.com", FALSE, TRUE),
                  GitHubEmail("y@y.com", TRUE, FALSE)>> =>
              r.primaryEmail = "x@x.com"

\* The list of the example has been resolved to x@x.com.
C18_Witness ==
    \E r \in inflight :
        /\ r.pc = "resolved" /\ r.emailsOk
        /\ r.emails = <<GitHubEmail("x@x.com", FALSE, TRUE),
                        GitHubEmail("y@y.com", TRUE, FALSE)>>
        /\ r.primaryEmail = "x@x.com"

\* A field that holds nothing.
IsEmpty(x) == x = NULL \/ x = ""
\* The name GitHub gives: the profile's name, or else the login.
GithubName(gu) == IF IsEmpty(gu.name) THEN gu.login ELSE gu.name

\* C21: when githubAuth finds no account for the GitHub id but a user with
\* the resolved e-mail, it creates exactly one account, owned by that user,
\* and no user; the user's name and avatarUrl are set from GitHub only where
\* they were empty, and every other field of the user, and every other
\* user, stays as it was.
C21_LinkToExistingUser ==
    [][\A gu \in RichProfiles :
        (/\ IsGithubStep(gu, FALSE, <<>>)'
         /\ gu.email # NULL
         /\ \A a \in accounts : a.providerAccountId # ToString(gu.id)
         /\ \E u \in users : u.email = gu.email) =>
            \A td \in GoodTokenResponses : githubAuth(td, TRUE, gu, FALSE, <<>>) =>
                \A eu \in users : eu.email = gu.email =>
                    /\ res'.code = "OK" /\ res'.token[1].userId = eu.id
                    /\ \E a \in accounts' :
                          /\ a \notin accounts /\ accounts' = accounts \cup {a}
                          /\ a.userId = eu.id /\ a.provider = "github"
                          /\ a.providerAccountId = ToString(gu.id)
                          /\ a.accessToken = td.access_token
                    /\ users' = (users \ {eu}) \cup
                          {[eu EXCEPT
                              !.name = IF IsEmpty(eu.name) THEN GithubName(gu)
                                       ELSE eu.name,
                              !.avatarUrl = IF IsEmpty(eu.avatarUrl)
                                            THEN gu.avatar_url ELSE eu.avatarUrl]}]_vars

\* A second GitHub identity has been linked to a password user, whose name
\* the first link had filled.
C21_Witness ==
    /\ res.op = "githubAuth" /\ res.code = "OK"
    /\ \E u \in users :
          /\ u.id = res.token[1].userId /\ u.email = res.input[2]
          /\ u.passwordHash # NoHash /\ ~IsEmpty(u.name)
          /\ Cardinality({a \in accounts : a.userId = u.id}) = 2

\* C22: when githubAuth finds the account of the GitHub id, it overwrites
\* the owner's name and avatarUrl from GitHub and the account's access
\* token and changes nothing else: the owner keeps the e-mail it has, a
\* placeholder included, its passwordHash and its emailVerified.  The
\* update would write the resolved e-mail only to an owner without one.
C22_RefreshExistingAccount ==
    [][\A gu \in RichProfiles, acc \in accounts :
        (acc.providerAccountId = ToString(gu.id) /\ IsGithubStep(gu, FALSE, <<>>)') =>
            \A td \in GoodTokenResponses : githubAuth(td, TRUE, gu, FALSE, <<>>) =>
                \A owner \in users : owner.id = acc.userId =>
                    /\ res'.code = "OK"
                    /\ users' = (users \ {owner}) \cup
                          {[owner EXCEPT !.name = GithubName(gu),
                                         !.avatarUrl = gu.avatar_url]}
                    /\ accounts' = (accounts \ {acc}) \cup
                          {[acc EXCEPT !.accessToken = td.access_token]}
                    /\ \A pe \in Emails \cup {NULL}, e0 \in {NULL, "", owner.email} :
                          RefreshUser([owner EXCEPT !.email = e0], gu, pe).email =
                              IF IsEmpty(e0) /\ pe # NULL THEN pe ELSE e0]_vars

\* githubAuth has refreshed an owner that keeps its placeholder address
\* although an e-mail was resolved this round.
C22_Witness ==
    /\ res.op = "githubAuth" /\ res.code = "OK"
    /\ res.input[2] # NULL
    /\ \E u \in users :
          /\ u.id = res.token[1].userId
          /\ u.email = "github_" \o res.input[1] \o "@placeholder.local"
          /\ ~u.emailVerified

\* C23: a token response with an error field or without access_token ends
\* githubAuth with BAD_REQUEST, the message being the error_description
\* when there is one, and the request makes no further call; a profile
\* response that is not ok ends it with INTERNAL_SERVER_ERROR.  Either way
\* no user or account is created or updated and no session token minted.
C23_OAuthFailsBeforeStore ==
    [][/\ \A rid \in 1..MaxInflight, td \in FailedTokenResponses \cup GoodTokenResponses :
            ((td.error # NULL \/ td.access_token = NULL) /\ ghExchange(rid, td)) =>
                /\ res'.op = "githubAuth" /\ res'.code = "BAD_REQUEST"
                /\ res'.message = (IF td.error_description # NULL
                                   THEN td.error_description ELSE MsgExchangeFailed)
                /\ res'.token = <<>>
                /\ inflight' = inflight
                /\ UNCHANGED StoreVars
       /\ \A r \in inflight :
            ghProfile(r, FALSE, NoProfile) =>
                /\ res'.op = "githubAuth" /\ res'.code = "INTERNAL_SERVER_ERROR"
                /\ res'.message = MsgProfileFailed
                /\ res'.token = <<>>
                /\ inflight' = inflight \ {r}
                /\ UNCHANGED StoreVars]_vars

\* An exchange has failed with the provider's description while a user and
\* an account are stored and another request is in progress.
C23_Witness ==
    /\ res.op = "githubAuth" /\ res.code = "BAD_REQUEST"
    /\ res.message = "The code passed is incorrect or expired"
    /\ users # {} /\ accounts # {} /\ inflight # {}

\* C24: createContext never fails: its user is the decoded payload, with
\* the userId, exactly when the header is "Bearer " followed by a token
\* with a valid signature that has not expired, and null for a missing
\* header, another prefix, or a malformed, foreign or expired token; the
\* protected procedure ends UNAUTHORIZED exactly when the user is null.
C24_ContextNeverFails ==
    res.op = "protected" =>
        LET h == res.input[1]
            t == res.input[2]
            good == /\ h.present /\ h.prefix = "Bearer "
                    /\ h.token.payload # <<>> /\ h.token.signed
                    /\ (t \div 1000) < h.token.payload[1].exp
        IN  /\ good => /\ res.token # <<>>
                       /\ res.token[1].userId = h.token.payload[1].userId
            /\ ~good => res.token = <<>>
            /\ res.code \in {"OK", "UNAUTHORIZED"}
            /\ res.code = "UNAUTHORIZED" <=> res.token = <<>>

\* A request with a well-signed Bearer token was refused in the second the
\* token expired.
C24_Witness ==
    /\ res.op = "protected" /\ res.code = "UNAUTHORIZED"
    /\ res.input[1].present /\ res.input[1].prefix = "Bearer "
    /\ res.input[1].token.signed /\ res.input[1].token.payload # <<>>
    /\ res.input[1].token.payload[1].exp = res.input[2] \div 1000

\* No two users share an e-mail.
UniqueEmails == \A u1 \in users, u2 \in users : u1.email = u2.email => u1 = u2

\* C25 (as stated): when two signup requests for one fresh e-mail have both
\* passed the existence check, the store never holds two users with that
\* e-mail, and the request whose user.create comes second fails with
\* CONFLICT.
C25_SignupRaceLateConflict ==
    [][\A r \in inflight :
        (/\ r.op = "signup" /\ r.pc = "checked"
         /\ ~EmailFree(users, r.email)
         /\ suCreateUser(r)) =>
            /\ UniqueEmails'
            /\ res'.op = "signup" /\ res'.code = "CONFLICT"]_vars

\* The users githubAuth created under a placeholder address: signup always
\* stores a password hash, githubAuth never does.
PlaceholderUsers(us) ==
    {u \in us : u.passwordHash = NoHash
                /\ \E g \in GithubIds : u.email = PlaceholderEmail(ToString(g))}

\* C26 (as stated): a user created by githubAuth with a placeholder e-mail
\* has emailVerified false in every reachable state, and login with its
\* e-mail fails with NOT_FOUND for every password.
C26_PlaceholderUserNeverVerified ==
    \A u \in PlaceholderUsers(users) :
        /\ ~u.emailVerified
        /\ \A p \in Passwords :
              LoginResult(users, u.email, p, now).code = "NOT_FOUND"

\* C26 (amended): a user created by githubAuth with a placeholder e-mail
\* is created unverified, keeps its e-mail and its empty password hash for
\* ever, and login with its e-mail fails with NOT_FOUND for every password;
\* its emailVerified changes only in a verifyEmail call that succeeds with a
\* token stored for the placeholder address (one resendVerification issued
\* for it).
C26_PlaceholderUserNoPasswordLogin ==
    [][/\ \A u \in PlaceholderUsers(users') :
            /\ \A p \in Passwords :
                  LoginResult(users', u.email, p, now').code = "NOT_FOUND"
            /\ (\A w \in users : w.id # u.id) => ~u.emailVerified
       /\ \A u \in PlaceholderUsers(users) :
            \E w \in PlaceholderUsers(users') :
                /\ w.id = u.id /\ w.email = u.email
                /\ w.emailVerified # u.emailVerified =>
                      /\ res'.op = "verifyEmail" /\ res'.code = "OK"
                      /\ \E t \in tokens : t.token = res'.input[1]
                                            /\ t.email = u.email]_vars

\* A placeholder user exists, is still unverified after a resendVerification
\* and a login for its address, and the login was answered NOT_FOUND.
C26_Witness ==
    /\ \E u \in PlaceholderUsers(users) :
          /\ ~u.emailVerified
          /\ res.op = "login" /\ res.input[1] = u.email
          /\ res.code = "NOT_FOUND"
          /\ \E t \in tokens : t.email = u.email

\* C27: for every verification token value, at most one verifyEmail call
\* ever returns a session token, however the calls interleave between the
\* token lookup, the user update and the token delete.
C27_TokenSingleUse == \A v \in TokenValues : redeemed[v] <= 1

\* Two verifyEmail calls read the same token before either deleted it; one
\* has returned a session, the other has failed on its delete.
C27_Witness ==
    /\ res.op = "verifyEmail" /\ res.code = "INTERNAL_SERVER_ERROR"
    /\ redeemed[res.input[1]] = 1
    /\ inflight = {}

\* C28: the create of a token-issuing request (signup or resendVerification)
\* that has run its deleteMany adds its one row and removes none, so when
\* another request for the same e-mail created its row in between, both rows
\* are stored; and every row then stored for that e-mail is accepted by
\* verifyEmail.
C28_DuplicateTokenRace ==
    [][\A r \in inflight :
        (r.pc = "deleted" /\ (suCreateToken(r) \/ rsCreateToken(r))) =>
            /\ tokens \subseteq tokens'
            /\ \E t \in tokens' \ tokens :
                  /\ tokens' = tokens \cup {t}
                  /\ t.token = r.token /\ t.email = r.email
            /\ \A t \in tokens' :
                  t.email = r.email =>
                      VerifyOutcome(users', tokens', t.token, now').code = "OK"]_vars

\* No request is in progress and two verification tokens are stored for one
\* e-mail, each of which verifyEmail accepts.
C28_Witness ==
    /\ inflight = {}
    /\ \E t1 \in tokens, t2 \in tokens :
          /\ t1.token # t2.token /\ t1.email = t2.email
          /\ VerifyOutcome(users, tokens, t1.token, now).code = "OK"
          /\ VerifyOutcome(users, tokens, t2.token, now).code = "OK"

\* C29 (as stated): in every state where no request is in progress, no
\* verification token is stored for the e-mail of a user whose emailVerified
\* is true.
C29_NoTokenForVerifiedUser ==
    inflight = {} =>
        \A t \in tokens : \A u \in FindUserByEmail(users, t.email) : ~u.emailVerified

\* C30: in every reachable state the e-mail of every stored verification
\* token is the e-mail of an existing user, and no verifyEmail call has
\* ended with its "User not found" failure.
C30_TokensHaveUsers ==
    /\ \A t \in tokens : FindUserByEmail(users, t.email) # {}
    /\ ~(res.op = "verifyEmail" /\ res.message = MsgVerifyNoUser)

\* A verification token is stored for a user whom githubAuth has just
\* refreshed through its GitHub account.
C30_Witness ==
    /\ res.op = "githubAuth" /\ res.code = "OK"
    /\ \E t \in tokens : \E u \in FindUserByEmail(users, t.email) :
          /\ \E a \in accounts : a.userId = u.id
          /\ u.name # NULL

\* C31: in every reachable state, for every unverified password user, a
\* resendVerification for its e-mail succeeds and leaves exactly one token
\* for that e-mail, a fresh one expiring 24 hours later; a verifyEmail with
\* a token stored for that e-mail, not later than its expiry, makes the user
\* verified; and a signup with that e-mail fails with CONFLICT and changes
\* nothing.
C31_VerificationStaysReachable ==
    [][\A u \in users :
        (u.passwordHash # NoHash /\ ~u.emailVerified) =>
            /\ \A o \in SendOutcomes :
                  resendVerification(u.email, o) =>
                      /\ res'.code = "OK"
                      /\ \E t \in tokens' :
                            /\ {x \in tokens' : x.email = u.email} = {t}
                            /\ t.token = generateVerificationToken(issued')
                            /\ \A x \in tokens : x.token # t.token
                            /\ redeemed[t.token] = 0
                            /\ t.expiresAt = now + VerificationTTL
            /\ \A t \in tokens :
                  (t.email = u.email /\ now <= t.expiresAt /\ verifyEmail(t.token)) =>
                      /\ res'.code = "OK"
                      /\ \E w \in users' : w.id = u.id /\ w.emailVerified
            /\ \A p \in Passwords :
                  signup(u.email, p) =>
                      /\ res'.code = "CONFLICT"
                      /\ UNCHANGED StoreVars]_vars

\* The only user let its signup token run out, asked for another one after
\* more than 24 hours and was verified with it.
C31_Witness ==
    /\ res.op = "verifyEmail" /\ res.code = "OK"
    /\ res.token[1].iat * 1000 > VerificationTTL
    /\ \E u \in users : users = {u} /\ u.emailVerified /\ u.passwordHash # NoHash
    /\ redeemed[generateVerificationToken(1)] = 0
    /\ \E n \in 2..MaxTokens : redeemed[generateVerificationToken(n)] = 1

\* C32 (as stated): whenever githubAuth links an account to an existing
\* user, or creates a user with emailVerified true, the e-mails call had
\* succeeded and that user's e-mail is one its list marks verified.
C32_OnlyProviderVerifiedEmails ==
    [][\A gu \in NamedProfiles, ok \in BOOLEAN, el \in EmailLists :
        (/\ IsGithubStep(gu, ok, el)'
         /\ \E td \in GoodTokenResponses : githubAuth(td, TRUE, gu, ok, el)) =>
            \A a \in accounts' \ accounts : \A u \in users' :
                (/\ u.id = a.userId
                 /\ \A b \in accounts : b.id # a.id
                 /\ (\E w \in users : w.id = u.id) \/ u.emailVerified) =>
                    /\ ok
                    /\ \E i \in Verified(el) : el[i].email = u.email]_vars

\* What the store holds for an e-mail: its user, the accounts of that user
\* and its verification tokens.
RowsOf(us, accs, toks, email) ==
    <<{u \in us : u.email = email},
      {a \in accs : \E u \in us : u.email = email /\ a.userId = u.id},
      {t \in toks : t.email = email}>>

\* C33: in every interleaving of signup, resendVerification, verifyEmail and
\* login requests for two e-mails, a step changes what the store holds for
\* an e-mail only if it is the step of one request for that e-mail; every
\* step of a request for the other e-mail, and every login, leaves those
\* rows exactly as they were.
C33_IdentitiesIndependent ==
    [][\A b \in Emails :
        RowsOf(users', accounts', tokens', b) # RowsOf(users, accounts, tokens, b) =>
            \E r \in inflight :
                /\ r.email = b
                /\ inflight \ inflight' = {r}
                /\ r.op \in {"signup", "resendVerification", "verifyEmail"}]_vars

\* Requests for both e-mails have run interleaved: a@b.com has been
\* verified while a signup for x@x.com was between its store calls, and
\* x@x.com keeps its user and its token.
C33_Witness ==
    /\ \E u \in users : u.email = "a@b.com" /\ u.emailVerified
    /\ \E u \in users : u.email = "x@x.com" /\ ~u.emailVerified
    /\ \E t \in tokens : t.email = "x@x.com"
    /\ \E r \in inflight : r.email = "a@b.com" /\ r.op = "resendVerification"
    /\ res.op = "signup" /\ res.email = "x@x.com"

\* C34: a login call, whatever its outcome (NOT_FOUND, FORBIDDEN,
\* UNAUTHORIZED or a session token), leaves every user, account and
\* verification token as it was.
C34_LoginReadOnly ==
    [][\A e \in LoginEmails, p \in Passwords :
        login(e, p) =>
            /\ users' = users /\ accounts' = accounts /\ tokens' = tokens
            /\ res'.code \in {"NOT_FOUND", "FORBIDDEN", "UNAUTHORIZED", "OK"}
            /\ res'.code = "OK" <=> res'.token # <<>>]_vars

\* A login has returned a session token next to stored users, accounts and
\* verification tokens.
C34_Witness ==
    /\ res.op = "login" /\ res.code = "OK" /\ res.token # <<>>
    /\ users # {} /\ accounts # {} /\ tokens # {}

\* C35: under the millisecond clock, every token row created at time t has
\* expiresAt = t + 86,400,000; verifyEmail at time now with a stored token of
\* an existing user returns a session when now <= expiresAt, the instant
\* now = expiresAt included, and ends with the expired failure only when
\* expiresAt < now.
C35_LifetimeBoundary ==
    [][/\ \A t \in tokens' \ tokens : t.expiresAt = now + 24 * 60 * 60 * 1000
       /\ \A t \in tokens :
            (FindUserByEmail(users, t.email) # {} /\ verifyEmail(t.token)) =>
                /\ now <= t.expiresAt =>
                      res'.code = "OK" /\ res'.token # <<>>
                /\ (res'.code = "BAD_REQUEST" /\ res'.message = MsgTokenExpired)
                      <=> t.expiresAt < now]_vars

\* The token issued at time 0 was accepted at the very millisecond of its
\* expiry.
C35_Witness ==
    /\ res.op = "verifyEmail" /\ res.code = "OK"
    /\ issued = 1 /\ ticks = 1 /\ now = VerificationTTL
    /\ res.token[1].iat * 1000 = VerificationTTL
    /\ redeemed[generateVerificationToken(1)] = 1

\* C36: every session token returned by verifyEmail, login or githubAuth
\* carries the id of a stored user, the one the call verified, authenticated,
\* linked or created, with no other claim than the issue and expiry times,
\* and expires 3600 seconds after its issue; presented as a Bearer token,
\* createContext yields that user before the expiry second and null from it
\* on.
C36_SessionTokenClaims ==
    /\ (res.op \in {"verifyEmail", "login", "githubAuth"} /\ res.token # <<>>) =>
          LET p == res.token[1] IN
          /\ DOMAIN p = {"userId", "iat", "exp"}
          /\ p.exp = p.iat + 60 * 60
          /\ p.iat <= now \div 1000
          /\ \E u \in users :
                /\ u.id = p.userId
                /\ res.op = "verifyEmail" => u.emailVerified
                /\ res.op = "login" => u.email = res.input[1]
                /\ res.op = "githubAuth" =>
                      \E a \in accounts : /\ a.userId = u.id
                                          /\ a.providerAccountId = res.input[1]
    /\ res.op = "protected" =>
          LET p == res.input[1].token.payload[1]
              t == res.input[2]
          IN  /\ \E u \in users : u.id = p.userId
              /\ t \div 1000 < p.iat + 60 * 60 =>
                    res.code = "OK" /\ res.token[1].userId = p.userId
              /\ t \div 1000 >= p.iat + 60 * 60 =>
                    res.code = "UNAUTHORIZED" /\ res.token = <<>>

\* A session token was presented exactly one hour after its issue and the
\* context held no user.
C36_Witness ==
    /\ res.op = "protected" /\ res.code = "UNAUTHORIZED"
    /\ res.input[2] \div 1000 = res.input[1].token.payload[1].iat + 60 * 60
    /\ \E u \in users : u.id = res.input[1].token.payload[1].userId

C38_NoExpiredTokenAttached ==
    /\ client.token # <<>> => client.token[1].exp >= now \div 1000
    /\ (res.op = "headers" /\ res.token # <<>>) =>
          res.token[1].exp >= res.input[1] \div 1000

\* C39 (as stated): the callback page writes the URL's token to
\* localStorage only when the URL's state equals the saved oauth_state,
\* and every load of the page leaves no saved oauth_state.
C39_TokenOnlyOnMatchingState ==
    [][(res'.op = "AuthCallbackPage" /\ res' # res) =>
          /\ client'.token # client.token =>
                res'.input[1] # NULL /\ res'.input[1] = res'.input[2]
          /\ client'.oauthState = NULL]_vars

====
